---- MODULE Spec2Model ----
(***************************************************************************)
(* Scheduled trade execution engine of TheOptionTrader (src/main.py):      *)
(* schedule_trades, the scheduler loop _trade_scheduler_thread, the daily  *)
(* reset _check_daily_reset / reload_config / _load_config, and the        *)
(* foreground start/stop of the loop.                                      *)
(*                                                                         *)
(* Instants are integers in milliseconds since midnight of day 0 (naive    *)
(* local datetimes); the wall clock takes the values ClockInstants.            *)
(* A time-of-day string is modelled by its tokens: the sequence of its     *)
(* ':'-separated fields, each field the sequence of its '.'-separated      *)
(* tokens, each token the integer it denotes or NaN when it is no integer. *)
(* Python dicts are functions; dict.get is Get.                            *)
(***************************************************************************)
EXTENDS Integers, Sequences, FiniteSets, TLC

MsPerMinute == 60 * 1000
MsPerHour == 60 * MsPerMinute
\* timedelta(days=1)
MsPerDay == 24 * MsPerHour
\* now.hour >= 7
ResetHour == 7
\* the clock runs over the days 0..MaxDay
MaxDay == 1
\* the hours of a day at which the model samples the wall clock: before, at and after
\* every time of day the inputs and the reset threshold name
ClockHours == {0, 6, 7, 8, 23}
ClockInstants == {d * MsPerDay + h * MsPerHour : d \in 0..MaxDay, h \in ClockHours}
\* None (retry_seconds of a trade that sets none; last_reset_date before the first reset)
None == -1
\* a token int() rejects
NaN == -99

Date(t) == t \div MsPerDay
TimeOfDay(t) == t % MsPerDay
Hour(t) == TimeOfDay(t) \div MsPerHour

Get(d, k, default) == IF k \in DOMAIN d THEN d[k] ELSE default

Last(s) == s[Len(s)]

----------------------------------------------------------------------------
(* Parsing of "HH:MM:SS.fff" and datetime.replace                          *)

\* int(field): the field must be one token that denotes an integer
IsInt(field) == Len(field) = 1 /\ field[1] # NaN

\* lines 1504-1509 / 1586-1591: the split, the indexing and the int() calls succeed
ParseOk(s) ==
    /\ Len(s) >= 3
    /\ IsInt(s[1])
    /\ IsInt(s[2])
    /\ Len(s[3]) >= 1
    /\ s[3][1] # NaN
    /\ (Len(s[3]) > 1 => s[3][2] # NaN)

ParsedHours(s) == s[1][1]
ParsedMinutes(s) == s[2][1]
ParsedSeconds(s) == s[3][1]
ParsedMicroseconds(s) == IF Len(s[3]) > 1 THEN s[3][2] * 1000 ELSE 0

\* datetime.replace raises ValueError outside these ranges
ReplaceOk(h, m, sec, us) ==
    /\ h \in 0..23
    /\ m \in 0..59
    /\ sec \in 0..59
    /\ us \in 0..999999

\* the try block of schedule_trades / of the recurrence raises no ValueError or IndexError
TimeStringOk(s) ==
    /\ ParseOk(s)
    /\ ReplaceOk(ParsedHours(s), ParsedMinutes(s), ParsedSeconds(s), ParsedMicroseconds(s))

\* t.replace(hour, minute, second, microsecond): same date, given time of day
Replace(t, h, m, sec, us) ==
    Date(t) * MsPerDay + h * MsPerHour + m * MsPerMinute + sec * 1000 + (us \div 1000)

ReplaceFromString(t, s) ==
    Replace(t, ParsedHours(s), ParsedMinutes(s), ParsedSeconds(s), ParsedMicroseconds(s))

----------------------------------------------------------------------------
(* Inputs: time strings, raw trades, configurations, configuration files   *)

\* "07:00:00.000"
T0700 == << <<7>>, <<0>>, <<0, 0>> >>
\* "23:00:00"
T2300 == << <<23>>, <<0>>, <<0>> >>
\* "06:30:00.500"
T0630 == << <<6>>, <<30>>, <<0, 500>> >>
\* "25:99:00"
TBadRange == << <<25>>, <<99>>, <<0>> >>
\* "07:00"
TShort == << <<7>>, <<0>> >>
\* "ab:00:00"
TAlpha == << <<NaN>>, <<0>>, <<0>> >>
\* "08:00:00:15"
TLong == << <<8>>, <<0>>, <<0>>, <<15>> >>

TrA1 == [time |-> T0700, direction |-> "buy"]
TrA2 == [time |-> T2300, direction |-> "sell", count |-> 2, amount |-> "1000",
         trading_time |-> "1m", retry_seconds |-> 0, comment |-> "late"]
TrB1 == [time |-> T0630, direction |-> "sell", count |-> 3, comment |-> "early"]
TrBad == [time |-> TBadRange, direction |-> "buy"]
TrShort == [time |-> TShort, direction |-> "buy"]
TrAlpha == [time |-> TAlpha, direction |-> "sell"]
\* an entry without 'direction'
TrNoDir == [time |-> T0700]
TrLong == [time |-> TLong, direction |-> "sell"]

CfgA == [trades |-> <<TrA1, TrA2>>, default_amount |-> "500", default_time |-> "5m"]
CfgB == [trades |-> <<TrB1, TrBad, TrA2>>, default_amount |-> "700", default_time |-> "5m"]
\* an entry that raises KeyError in schedule_trades, after a good one
CfgKeyError == [trades |-> <<TrA1, TrAlpha, TrNoDir>>, default_amount |-> "500", default_time |-> "5m"]
\* opt/config.json
CfgDefault == [trades |-> <<TrShort, TrB1>>, default_amount |-> "100", default_time |-> "5m"]

\* entries with too few and too many fields, a non-numeric and an out-of-range field
\* among good ones
CfgMixed == [trades |-> <<TrBad, TrA1, TrLong, TrShort, TrAlpha, TrA2>>,
             default_amount |-> "500", default_time |-> "5m"]

EmptyCfg == [x \in {} |-> 0]

\* what open()/json.load of config.json can meet
UserFiles ==
    {[kind |-> "json", cfg |-> c] : c \in {CfgA, CfgB, CfgKeyError}}
    \cup {[kind |-> k, cfg |-> EmptyCfg] : k \in {"missing", "badjson", "unreadable"}}

\* _load_default_config: the dict of opt/config.json, or {} when the file is missing or invalid
DefaultFiles == {EmptyCfg, CfgDefault}

\* _deep_merge at the depth the model keeps: override wins key by key
DeepMerge(base, override) ==
    [k \in DOMAIN base \cup DOMAIN override |->
        IF k \in DOMAIN override THEN override[k] ELSE base[k]]

\* _load_config: "ok" with the configuration, "exit" for sys.exit(1) (SystemExit),
\* "raise" for an exception of class Exception (an OSError of open())
LoadConfig(user, default) ==
    IF user.kind = "badjson" THEN [kind |-> "exit", cfg |-> EmptyCfg]
    ELSE IF user.kind = "unreadable" THEN [kind |-> "raise", cfg |-> EmptyCfg]
    ELSE IF user.kind = "missing" /\ default = EmptyCfg THEN [kind |-> "exit", cfg |-> EmptyCfg]
    ELSE IF default # EmptyCfg THEN [kind |-> "ok", cfg |-> DeepMerge(default, user.cfg)]
    ELSE [kind |-> "ok", cfg |-> user.cfg]

----------------------------------------------------------------------------
(* schedule_trades, one raw trade                                          *)

\* lines 1494-1500 raise KeyError (outside the try block)
TradeRaises(cfg, trade) ==
    \/ "time" \notin DOMAIN trade
    \/ "direction" \notin DOMAIN trade
    \/ "default_amount" \notin DOMAIN cfg
    \/ "default_time" \notin DOMAIN cfg

\* ScheduleTime with `<` for `<=`: a time of day equal to now stays today
ScheduleTime_strict(now, s) ==
    LET target_time == ReplaceFromString(now, s)
    IN  IF target_time < now THEN target_time + MsPerDay ELSE target_time

\* lines 1512-1522: today's date at the parsed time, moved to tomorrow when not after now
ScheduleTime(now, s) ==
    LET target_time == ReplaceFromString(now, s)
    IN  IF target_time <= now THEN target_time + MsPerDay ELSE target_time

\* lines 1524-1533
ScheduledTrade(cfg, trade, now) ==
    [time |-> ScheduleTime(now, trade.time),
     direction |-> trade.direction,
     count |-> Get(trade, "count", 1),
     amount |-> Get(trade, "amount", cfg.default_amount),
     trading_time |-> Get(trade, "trading_time", cfg.default_time),
     retry_seconds |-> Get(trade, "retry_seconds", None),
     comment |-> Get(trade, "comment", ""),
     original_time |-> trade.time]

----------------------------------------------------------------------------
(* State                                                                   *)

VARIABLES
    clock,              \* datetime.now(), in ms
    config,             \* self.config
    scheduled_trades,   \* self.scheduled_trades
    last_reset_date,    \* self.last_reset_date (None or a day number)
    is_running,         \* self.is_running
    pc,                 \* position of the main thread (before the loop starts) and of the scheduler thread
    sched_ret,          \* caller of the running schedule_trades: "main" or "reload"
    sched_i,            \* index of the raw trade schedule_trades is at
    current_time,       \* current_time of the running cycle
    today,              \* today of the running _check_daily_reset
    trades_to_execute,  \* due list of the running cycle
    remaining_trades,   \* remaining list of the running cycle
    exec_i,             \* index in trades_to_execute of the descriptor being processed
    executing,          \* indices of trades_to_execute whose execute_trade has been entered and has not returned
    result,             \* outcome of the last execute_trade of the running cycle
    resets,             \* dates (today) of the daily resets that succeeded, in order
    epc,                \* position inside the running execute_trade ("idle" outside)
    trade_i,            \* i of `for i in range(count)`
    base_entry_count,   \* base_entry_count
    current_entry_count,\* current_entry_count
    final_entry_count,  \* final_entry_count
    actual_count,       \* actual_count
    trade_start_time,   \* trade_start_time (None before line 1107)
    ret,                \* how execute_trade ends: "none" until then, "True", "False" or "raised"
    ui_oneclick,        \* the page is in one-click mode: it shows no purchase button
    amount_entries,     \* amounts typed by set_amount during this execute_trade
    direction_clicks,   \* clicks on the direction button during this execute_trade
    purchase_clicks,    \* clicks on the purchase button during this execute_trade
    retry_clicks,       \* those of the clicks that the retry loop issued
    deadline_seen,      \* a check of this execute_trade found the retry budget used up
    fg,                 \* position of the foreground thread: in main up to the start ("main"),
                        \* in the wait loop of start_trading ("wait"), in the join of its
                        \* KeyboardInterrupt handler ("join"), returned from main ("done")
    driver,             \* self.driver: "session" once start_browser has set it, "None" after close_browser
    before_reset,       \* self.config and self.scheduled_trades as the running _check_daily_reset
                        \* found them (NoSnapshot while no reset is being attempted)
    later_threads,      \* live scheduler threads started by start_trading calls after the first
                        \* one while the thread pc follows was alive
    reset_entry_count,  \* the argument reset_entry_count of execute_trade
    baseline_reading    \* what get_entry_count returned at the baseline of this execute_trade

\* the locals of execute_trade, the page, and the record of what was done to the page
execVars == <<epc, trade_i, base_entry_count, current_entry_count, final_entry_count,
              actual_count, trade_start_time, ret, ui_oneclick, amount_entries,
              direction_clicks, purchase_clicks, retry_clicks, deadline_seen>>

\* the foreground thread and the browser session it opened
fgVars == <<fg, driver>>

\* the record of a reset attempt, the threads of earlier starts, and the baseline of an
\* execute_trade with the flag it was called with
auxVars == <<before_reset, later_threads, reset_entry_count, baseline_reading>>

\* before_reset outside a reset attempt
NoSnapshot == [config |-> EmptyCfg, trades |-> <<>>]

vars == <<clock, config, scheduled_trades, last_reset_date, is_running, pc, sched_ret, sched_i,
          current_time, today, trades_to_execute, remaining_trades, exec_i, executing, result,
          resets, execVars, fgVars, auxVars>>

\* the configurations the constructor can have loaded
InitConfigs == {CfgA, CfgB}

\* how an execute_trade ends: all entries confirmed, some, none before the deadline,
\* or an early return False of the configuration checks
Outcomes == {"success", "partial", "timeout", "config_failure"}

\* the thread has ended, or the program has
Terminal == {"exit", "stopped", "dead", "killed"}

\* no execute_trade is running
ExecIdle ==
    /\ epc = "idle"
    /\ trade_i = 0
    /\ base_entry_count = 0
    /\ current_entry_count = 0
    /\ final_entry_count = 0
    /\ actual_count = 0
    /\ trade_start_time = None
    /\ ret = "none"
    /\ amount_entries = 0
    /\ direction_clicks = 0
    /\ purchase_clicks = 0
    /\ retry_clicks = 0
    /\ deadline_seen = FALSE

\* __init__ (lines 44-50) and start_browser (line 608), at the start of day 0
Init ==
    /\ clock = 0
    /\ config \in InitConfigs
    /\ scheduled_trades = <<>>
    /\ last_reset_date = None
    /\ is_running = FALSE
    /\ pc = "main"
    /\ sched_ret = "main"
    /\ sched_i = 1
    /\ current_time = 0
    /\ today = 0
    /\ trades_to_execute = <<>>
    /\ remaining_trades = <<>>
    /\ exec_i = 1
    /\ executing = {}
    /\ result = "none"
    /\ resets = <<>>
    /\ ExecIdle
    /\ ui_oneclick = FALSE
    /\ fg = "main"
    /\ driver = "session"
    /\ before_reset = NoSnapshot
    /\ later_threads = 0
    /\ reset_entry_count = TRUE
    /\ baseline_reading = 0

----------------------------------------------------------------------------
(* Time                                                                    *)

\* where the thread is when time passes before its next reading of the clock: the mode
\* menu and the sleep (LoopTop reads), between current_time and the reset check's own
\* now, between the raw trades of schedule_trades, and during an execute_trade
TickPoints == {"start", "top", "reset", "sched", "executing"}

\* the wall clock advances to its next instant
Tick ==
    /\ pc \in TickPoints
    /\ \E t \in ClockInstants :
          /\ t > clock
          /\ \A u \in ClockInstants : u > clock => t <= u
          /\ clock' = t
    /\ UNCHANGED <<config, scheduled_trades, last_reset_date, is_running, pc, sched_ret, sched_i,
                   current_time, today, trades_to_execute, remaining_trades, exec_i, executing,
                   result, resets>>
    /\ UNCHANGED <<execVars, fgVars, auxVars>>

----------------------------------------------------------------------------
(* schedule_trades                                                         *)

\* main(): trader.schedule_trades()
MainScheduleTrades ==
    /\ pc = "main"
    /\ pc' = "sched"
    /\ sched_ret' = "main"
    /\ sched_i' = 1
    /\ UNCHANGED <<clock, config, scheduled_trades, last_reset_date, is_running, current_time,
                   today, trades_to_execute, remaining_trades, exec_i, executing, result, resets>>
    /\ UNCHANGED <<execVars, fgVars, auxVars>>

\* schedule_trades raises at this point: config[...]['trades'] or a trade's key is missing
ScheduleRaises ==
    IF "trades" \notin DOMAIN config
    THEN TRUE
    ELSE /\ sched_i <= Len(config.trades)
         /\ TradeRaises(config, config.trades[sched_i])

\* schedule_trades has gone through every raw trade
ScheduleFinished ==
    IF "trades" \in DOMAIN config THEN sched_i > Len(config.trades) ELSE FALSE

\* the exception leaves schedule_trades: main() ends (except Exception, line 1938),
\* reload_config returns False (line 288) and the check returns False (line 316)
ScheduleTradesRaise ==
    /\ pc = "sched"
    /\ ScheduleRaises
    /\ pc' = IF sched_ret = "main" THEN "exit" ELSE "partition"
    /\ UNCHANGED <<clock, config, scheduled_trades, last_reset_date, is_running, sched_ret,
                   sched_i, current_time, today, trades_to_execute, remaining_trades, exec_i,
                   executing, result, resets>>
    /\ before_reset' = NoSnapshot
    /\ UNCHANGED <<execVars, fgVars, later_threads, reset_entry_count, baseline_reading>>

\* one iteration of the for loop of schedule_trades
ScheduleTradesStep ==
    /\ pc = "sched"
    /\ ~ScheduleRaises
    /\ ~ScheduleFinished
    /\ LET trade == config.trades[sched_i]
       IN  scheduled_trades' =
               IF TimeStringOk(trade.time)
               THEN Append(scheduled_trades, ScheduledTrade(config, trade, clock))
               ELSE scheduled_trades
    /\ sched_i' = sched_i + 1
    /\ UNCHANGED <<clock, config, last_reset_date, is_running, pc, sched_ret, current_time,
                   today, trades_to_execute, remaining_trades, exec_i, executing, result, resets>>
    /\ UNCHANGED <<execVars, fgVars, auxVars>>

\* schedule_trades returns to main(), which goes on to the mode menu
ScheduleTradesReturnMain ==
    /\ pc = "sched"
    /\ sched_ret = "main"
    /\ ScheduleFinished
    /\ pc' = "start"
    /\ UNCHANGED <<clock, config, scheduled_trades, last_reset_date, is_running, sched_ret,
                   sched_i, current_time, today, trades_to_execute, remaining_trades, exec_i,
                   executing, result, resets>>
    /\ UNCHANGED <<execVars, fgVars, auxVars>>

\* the date _check_daily_reset stores after reload_config returned True
ResetDate(d) == d

\* schedule_trades returns to reload_config, which returns True; _check_daily_reset
\* sets last_reset_date = today and returns True
ScheduleTradesReturnReload ==
    /\ pc = "sched"
    /\ sched_ret = "reload"
    /\ ScheduleFinished
    /\ last_reset_date' = ResetDate(today)
    /\ resets' = Append(resets, today)
    /\ pc' = "partition"
    /\ UNCHANGED <<clock, config, scheduled_trades, is_running, sched_ret, sched_i, current_time,
                   today, trades_to_execute, remaining_trades, exec_i, executing, result>>
    /\ before_reset' = NoSnapshot
    /\ UNCHANGED <<execVars, fgVars, later_threads, reset_entry_count, baseline_reading>>

----------------------------------------------------------------------------
(* start_trading / stop                                                    *)

\* start_trading: refuses an empty schedule, else sets the run flag and starts the thread
StartTrading ==
    /\ pc = "start"
    /\ IF scheduled_trades = <<>>
       THEN /\ pc' = "exit"
            /\ UNCHANGED <<is_running, fg>>
       ELSE /\ pc' = "top"
            /\ is_running' = TRUE
            /\ fg' = "wait"
    /\ UNCHANGED <<clock, config, scheduled_trades, last_reset_date, sched_ret, sched_i,
                   current_time, today, trades_to_execute, remaining_trades, exec_i, executing,
                   result, resets>>
    /\ UNCHANGED <<execVars, driver, auxVars>>

\* stop_trading: clears the run flag
StopTrading ==
    /\ is_running
    /\ pc \notin Terminal
    /\ is_running' = FALSE
    /\ UNCHANGED <<clock, config, scheduled_trades, last_reset_date, pc, sched_ret, sched_i,
                   current_time, today, trades_to_execute, remaining_trades, exec_i, executing,
                   result, resets>>
    /\ UNCHANGED <<execVars, fgVars, auxVars>>

----------------------------------------------------------------------------
(* The scheduler loop: _trade_scheduler_thread                             *)

\* while self.is_running: current_time = datetime.now()
LoopTop ==
    /\ pc = "top"
    /\ IF is_running
       THEN /\ current_time' = clock
            /\ pc' = "reset"
       ELSE /\ pc' = "stopped"
            /\ UNCHANGED current_time
    /\ UNCHANGED <<clock, config, scheduled_trades, last_reset_date, is_running, sched_ret,
                   sched_i, today, trades_to_execute, remaining_trades, exec_i, executing,
                   result, resets>>
    /\ UNCHANGED <<execVars, fgVars, auxVars>>

\* NeedsReset without the comparison of dates
NeedsReset_always(last, tdy) == TRUE

\* if self.last_reset_date != today
NeedsReset(last, tdy) == last # tdy

\* ResetHourReached without the hour threshold
ResetHourReached_always(now) == TRUE

\* if now.hour >= 7
ResetHourReached(now) == Hour(now) >= ResetHour

\* _check_daily_reset up to the call of reload_config: it reads its own now
CheckDailyReset ==
    /\ pc = "reset"
    /\ today' = Date(clock)
    /\ pc' = IF NeedsReset(last_reset_date, Date(clock)) /\ ResetHourReached(clock)
             THEN "reload"
             ELSE "partition"
    /\ UNCHANGED <<clock, config, scheduled_trades, last_reset_date, is_running, sched_ret,
                   sched_i, current_time, trades_to_execute, remaining_trades, exec_i,
                   executing, result, resets>>
    /\ before_reset' = IF NeedsReset(last_reset_date, Date(clock)) /\ ResetHourReached(clock)
                       THEN [config |-> config, trades |-> scheduled_trades]
                       ELSE NoSnapshot
    /\ UNCHANGED <<execVars, fgVars, later_threads, reset_entry_count, baseline_reading>>

\* ClearedSchedule that keeps the pending descriptors
ClearedSchedule_keep(old) == old

\* self.scheduled_trades = [] of reload_config
ClearedSchedule(old) == <<>>

\* reload_config up to the call of schedule_trades: _load_config of the files as they are
\* now, then self.config = new_config and the schedule is cleared. An exception of
\* _load_config is caught (return False); its sys.exit(1) is a SystemExit, which
\* `except Exception` does not catch and which ends the scheduler thread
ReloadConfig ==
    /\ pc = "reload"
    /\ \E user \in UserFiles, default \in DefaultFiles :
          LET loaded == LoadConfig(user, default)
          IN  \/ /\ loaded.kind = "ok"
                 /\ config' = loaded.cfg
                 /\ scheduled_trades' = ClearedSchedule(scheduled_trades)
                 /\ sched_ret' = "reload"
                 /\ sched_i' = 1
                 /\ pc' = "sched"
              \/ /\ loaded.kind = "raise"
                 /\ pc' = "partition"
                 /\ UNCHANGED <<config, scheduled_trades, sched_ret, sched_i>>
              \/ /\ loaded.kind = "exit"
                 /\ pc' = "dead"
                 /\ UNCHANGED <<config, scheduled_trades, sched_ret, sched_i>>
    /\ UNCHANGED <<clock, last_reset_date, is_running, current_time, today, trades_to_execute,
                   remaining_trades, exec_i, executing, result, resets>>
    /\ before_reset' = IF pc' = "sched" THEN before_reset ELSE NoSnapshot
    /\ UNCHANGED <<execVars, fgVars, later_threads, reset_entry_count, baseline_reading>>

\* IsDue with `>` for `>=`
IsDue_strict(trade, now) == now > trade.time

\* if current_time >= trade['time']
IsDue(trade, now) == now >= trade.time

\* the due descriptors taken from the back of the schedule
DueTrades_reversed(trades, now) ==
    LET due == SelectSeq(trades, LAMBDA t : IsDue(t, now))
    IN  [k \in 1..Len(due) |-> due[Len(due) + 1 - k]]

DueTrades(trades, now) == SelectSeq(trades, LAMBDA t : IsDue(t, now))
NotDueTrades(trades, now) == SelectSeq(trades, LAMBDA t : ~IsDue(t, now))

\* lines 1552-1559: the partition, by the timestamp read at the top of the cycle
Partition ==
    /\ pc = "partition"
    /\ trades_to_execute' = DueTrades(scheduled_trades, current_time)
    /\ remaining_trades' = NotDueTrades(scheduled_trades, current_time)
    /\ exec_i' = 1
    /\ pc' = IF DueTrades(scheduled_trades, current_time) = <<>> THEN "replace" ELSE "dispatch"
    /\ UNCHANGED <<clock, config, scheduled_trades, last_reset_date, is_running, sched_ret,
                   sched_i, current_time, today, executing, result, resets>>
    /\ UNCHANGED <<execVars, fgVars, auxVars>>

\* ExecuteTradeCall that does not wait for the execution to return
ExecuteTradeCall_async ==
    /\ pc = "dispatch"
    /\ executing' = executing \cup {exec_i}
    /\ pc' = "recur"
    /\ UNCHANGED <<clock, config, scheduled_trades, last_reset_date, is_running, sched_ret,
                   sched_i, current_time, today, trades_to_execute, remaining_trades, exec_i,
                   result, resets>>
    /\ UNCHANGED <<execVars, fgVars, auxVars>>

\* self.execute_trade(...) is entered; the loop waits for it
ExecuteTradeCall ==
    /\ pc = "dispatch"
    /\ executing' = executing \cup {exec_i}
    /\ pc' = "executing"
    /\ UNCHANGED <<clock, config, scheduled_trades, last_reset_date, is_running, sched_ret,
                   sched_i, current_time, today, trades_to_execute, remaining_trades, exec_i,
                   result, resets>>
    /\ UNCHANGED <<execVars, fgVars, auxVars>>

\* an execute_trade returns, with any outcome (the loop ignores the value)
ExecuteTradeReturn ==
    /\ \E k \in executing :
          executing' = executing \ {k}
    /\ \E r \in Outcomes :
          result' = r
    /\ pc' = IF pc = "executing" THEN "recur" ELSE pc
    /\ UNCHANGED <<clock, config, scheduled_trades, last_reset_date, is_running, sched_ret,
                   sched_i, current_time, today, trades_to_execute, remaining_trades, exec_i,
                   resets>>
    /\ UNCHANGED <<execVars, fgVars, auxVars>>

\* lines 1594-1600: (now + timedelta(days=1)).replace(...)
NextDayTime(now, s) == ReplaceFromString(now + MsPerDay, s)

\* NextOccurrence that does not carry the retry budget override over
NextOccurrence_noretry(trade, now) ==
    [time |-> NextDayTime(now, trade.original_time),
     direction |-> trade.direction,
     count |-> trade.count,
     amount |-> trade.amount,
     trading_time |-> trade.trading_time,
     retry_seconds |-> None,
     comment |-> trade.comment,
     original_time |-> trade.original_time]

\* lines 1603-1612
NextOccurrence(trade, now) ==
    [time |-> NextDayTime(now, trade.original_time),
     direction |-> trade.direction,
     count |-> trade.count,
     amount |-> trade.amount,
     trading_time |-> trade.trading_time,
     retry_seconds |-> trade.retry_seconds,
     comment |-> trade.comment,
     original_time |-> trade.original_time]

\* AppendRecurrence that lets the dispatched descriptor go without a next occurrence
AppendRecurrence_drop(remaining, next) == remaining

\* AppendRecurrence that inserts at the front
AppendRecurrence_front(remaining, next) == <<next>> \o remaining

\* remaining_trades.append(...)
AppendRecurrence(remaining, next) == Append(remaining, next)

\* lines 1583-1616: the next occurrence of the descriptor just executed, by the clock
\* read after its execution; a stored time that does not parse drops the recurrence
Recurrence ==
    /\ pc = "recur"
    /\ LET trade == trades_to_execute[exec_i]
       IN  remaining_trades' =
               IF TimeStringOk(trade.original_time)
               THEN AppendRecurrence(remaining_trades, NextOccurrence(trade, clock))
               ELSE remaining_trades
    /\ exec_i' = exec_i + 1
    /\ pc' = IF exec_i < Len(trades_to_execute) THEN "dispatch" ELSE "replace"
    /\ UNCHANGED <<clock, config, scheduled_trades, last_reset_date, is_running, sched_ret,
                   sched_i, current_time, today, trades_to_execute, executing, result, resets>>
    /\ UNCHANGED <<execVars, fgVars, auxVars>>

\* lines 1618-1622: self.scheduled_trades = remaining_trades, the sleep, and the next
\* cycle's fresh locals
EndOfCycle ==
    /\ pc = "replace"
    /\ scheduled_trades' = remaining_trades
    /\ trades_to_execute' = <<>>
    /\ remaining_trades' = <<>>
    /\ exec_i' = 1
    /\ result' = "none"
    /\ pc' = "top"
    /\ UNCHANGED <<clock, config, last_reset_date, is_running, sched_ret, sched_i, current_time,
                   today, executing, resets>>
    /\ UNCHANGED <<execVars, fgVars, auxVars>>

----------------------------------------------------------------------------

Next ==
    \/ Tick
    \/ MainScheduleTrades
    \/ ScheduleTradesRaise
    \/ ScheduleTradesStep
    \/ ScheduleTradesReturnMain
    \/ ScheduleTradesReturnReload
    \/ StartTrading
    \/ StopTrading
    \/ LoopTop
    \/ CheckDailyReset
    \/ ReloadConfig
    \/ Partition
    \/ ExecuteTradeCall
    \/ ExecuteTradeReturn
    \/ Recurrence
    \/ EndOfCycle

Spec == Init /\ [][Next]_vars

\* the program as Spec has it, started on a config.json whose trades have time strings
\* of every malformed kind
InitSched ==
    /\ clock = 0
    /\ config = CfgMixed
    /\ scheduled_trades = <<>>
    /\ last_reset_date = None
    /\ is_running = FALSE
    /\ pc = "main"
    /\ sched_ret = "main"
    /\ sched_i = 1
    /\ current_time = 0
    /\ today = 0
    /\ trades_to_execute = <<>>
    /\ remaining_trades = <<>>
    /\ exec_i = 1
    /\ executing = {}
    /\ result = "none"
    /\ resets = <<>>
    /\ ExecIdle
    /\ ui_oneclick = FALSE
    /\ fg = "main"
    /\ driver = "session"
    /\ before_reset = NoSnapshot
    /\ later_threads = 0
    /\ reset_entry_count = TRUE
    /\ baseline_reading = 0

SpecSched == InitSched /\ [][Next]_vars

----------------------------------------------------------------------------
(* execute_trade: its configuration, its waits, what the page can answer   *)
(*                                                                         *)
(* time.time() and datetime.now() read the same clock: inside execute_trade *)
(* the clock advances by the sleeps and by the element waits that time out. *)
(* A lookup that finds its element, a click and a read of the page take no *)
(* time.                                                                   *)

\* WebDriverWait(self.driver, 5) of set_amount, select_trading_time,
\* enable_oneclick_trading and of the direction / purchase buttons of normal mode
ElementWaitMs == 5000
\* WebDriverWait(self.driver, 2) of the direction button of one-click mode
OneClickWaitMs == 2000
\* WebDriverWait(self.driver, 1) of the retry loop
RetryWaitMs == 1000
\* retry_check_interval = 0.1
RetryCheckIntervalMs == 100
\* time.sleep(0.5) before the entry count is read
ConfirmSleepMs == 500
\* the sleeps of set_amount: 0.1 + 0.05 + 0.1 + 0.1
AmountSleepMs == 100 + 50 + 100 + 100
\* time.sleep(0.5) after the dropdown click of select_trading_time
DropdownSleepMs == 500
\* time.sleep(0.3) after the click on the list element of select_trading_time
ListSleepMs == 300
\* time.sleep(0.3) after the click on the one-click toggle
ToggleSleepMs == 300
\* .get('wait_time_between_actions', 0.5)
DefaultWaitMs == 500
\* .get('retry_seconds', 10)
DefaultRetrySeconds == 10

\* largest entry count the page shows
MaxEntries == 6

\* what get_entry_count can return: the number of timer areas on the page, 0 on an error
Readings == 0..MaxEntries

\* direction.lower()
Lower(s) ==
    IF s = "BUY" THEN "buy"
    ELSE IF s = "SELL" THEN "sell"
    ELSE IF s = "HOLD" THEN "hold"
    ELSE s

\* SelectorUnset that accepts the empty selector
SelectorUnset_never(sel) == FALSE

\* `not selector`: a selector left empty in config.json
SelectorUnset(sel) == sel = ""

\* the configuration key of the button of a valid direction
DirectionKey(direction) ==
    IF Lower(direction) = "buy" THEN "buy_button_selector" ELSE "sell_button_selector"

\* .get('use_oneclick_trading', False)
UseOneClick(cfg) == Get(cfg, "use_oneclick_trading", FALSE)

\* .get('wait_time_between_actions', 0.5), in ms
WaitTime(cfg) == Get(cfg, "wait_time_between_actions", DefaultWaitMs)

\* retry_seconds or .get('retry_seconds', 10): an override of 0 counts as none
TradeRetrySeconds_truthy(cfg, retry_seconds) ==
    IF retry_seconds # None /\ retry_seconds # 0
    THEN retry_seconds
    ELSE Get(cfg, "retry_seconds", DefaultRetrySeconds)

\* retry_seconds if retry_seconds is not None else .get('retry_seconds', 10)
TradeRetrySeconds(cfg, retry_seconds) ==
    IF retry_seconds # None THEN retry_seconds ELSE Get(cfg, "retry_seconds", DefaultRetrySeconds)

\* is_purchase_button_available: the page shows a purchase button
IsPurchaseButtonAvailable(oneclick_page) == ~oneclick_page

\* is_oneclick_trading_enabled: the page shows no purchase button
IsOneClickTradingEnabled(oneclick_page) == oneclick_page

\* lines 1038-1083, the checks before anything is done to the page: "ok", or why
\* execute_trade returns False ("raise": a KeyError, caught at line 1254)
PreCheck(cfg, direction, oneclick_page) ==
    IF Lower(direction) \notin {"buy", "sell"} THEN "invalid_direction"
    ELSE IF DirectionKey(direction) \notin DOMAIN cfg THEN "raise"
    ELSE IF "purchase_button_selector" \notin DOMAIN cfg THEN "raise"
    ELSE IF SelectorUnset(cfg[DirectionKey(direction)]) THEN "no_direction_selector"
    ELSE IF ~UseOneClick(cfg) /\ SelectorUnset(cfg.purchase_button_selector)
         THEN "no_purchase_selector"
    ELSE IF ~UseOneClick(cfg) /\ ~IsPurchaseButtonAvailable(oneclick_page)
         THEN "no_purchase_button"
    ELSE "ok"

\* select_trading_time: what it returns and how long it takes. Its two configuration
\* reads are outside its try block ("raise"); it returns False at once when a selector is
\* empty, after the wait when the dropdown or the list does not appear, after the
\* dropdown sleep when no list element matches or a click fails
SelectTradingTimeOutcomes(cfg) ==
    IF "time_dropdown_selector" \notin DOMAIN cfg \/ "time_list_selector" \notin DOMAIN cfg
    THEN {[res |-> "raise", ms |-> 0]}
    ELSE IF SelectorUnset(cfg.time_dropdown_selector) \/ SelectorUnset(cfg.time_list_selector)
    THEN {[res |-> "False", ms |-> 0]}
    ELSE {[res |-> "True", ms |-> DropdownSleepMs + ListSleepMs],
          [res |-> "False", ms |-> ElementWaitMs],
          [res |-> "False", ms |-> DropdownSleepMs + ElementWaitMs],
          [res |-> "False", ms |-> DropdownSleepMs]}

\* enable_oneclick_trading: the mode of the page afterwards and how long it takes.
\* Nothing is done when the mode is already on or no toggle selector is configured;
\* the toggle may not appear (wait), and its click may or may not switch the mode
EnableOneClickOutcomes(cfg, oneclick_page) ==
    IF IsOneClickTradingEnabled(oneclick_page)
    THEN {[page |-> oneclick_page, ms |-> 0]}
    ELSE IF SelectorUnset(Get(cfg, "oneclick_toggle_selector", ""))
    THEN {[page |-> oneclick_page, ms |-> 0]}
    ELSE {[page |-> oneclick_page, ms |-> ElementWaitMs],
          [page |-> oneclick_page, ms |-> ToggleSleepMs],
          [page |-> TRUE, ms |-> ToggleSleepMs]}

\* set_amount: what it returns and how long it takes. Its configuration read is outside
\* its try block ("raise"); False at once for an empty selector or a failing click,
\* False after the wait when the input does not appear
SetAmountOutcomes(cfg) ==
    IF "amount_input_selector" \notin DOMAIN cfg
    THEN {[res |-> "raise", ms |-> 0]}
    ELSE IF SelectorUnset(cfg.amount_input_selector)
    THEN {[res |-> "False", ms |-> 0]}
    ELSE {[res |-> "True", ms |-> AmountSleepMs],
          [res |-> "False", ms |-> ElementWaitMs],
          [res |-> "False", ms |-> 0]}

\* WebDriverWait(...).until(element_to_be_clickable(...)) followed by .click(): the
\* button is clicked, or the wait ends in a TimeoutException, or the lookup or the click
\* raises another WebDriverException
ClickOutcomes == {"clicked", "timeout", "error"}

\* ExpectedCount that counts iterations from zero
ExpectedCount_zero_based(base, i) == base + i

\* expected_count = base_entry_count + (i + 1)
ExpectedCount(base, i) == base + (i + 1)

\* actual_count = final_entry_count - base_entry_count
ActualCount(final, base) == final - base

\* DeadlineReached that never finds the budget used up
DeadlineReached_never(elapsed_ms, seconds) == FALSE

\* if elapsed_time >= trade_retry_seconds (lines 1124, 1189, 1221, 1234, 1241)
DeadlineReached(elapsed_ms, seconds) == elapsed_ms >= seconds * 1000

\* OuterExcept that lets the exception leave execute_trade
OuterExcept_propagate == "raised"

\* lines 1254-1256: an exception that reaches the outer try block of execute_trade is
\* caught there and False is returned
OuterExcept == "False"

\* the descriptor whose execute_trade is running
CurrentTrade == trades_to_execute[exec_i]

\* trade_retry_seconds of the running execute_trade
Budget == TradeRetrySeconds(config, CurrentTrade.retry_seconds)

\* what the scheduler's log shows of a returned execute_trade
OutcomeOf(started, actual, count) ==
    IF ~started THEN "config_failure"
    ELSE IF actual >= count THEN "success"
    ELSE IF actual > 0 THEN "partial"
    ELSE "timeout"

----------------------------------------------------------------------------
(* execute_trade, step by step                                             *)

\* BaseEntryCount that starts from zero when the count is said to be reset
BaseEntryCount_zero(reset, reading) == IF reset THEN 0 ELSE reading

\* lines 1086-1094: base_entry_count = self.get_entry_count() in both branches of
\* `if reset_entry_count` (the branches differ in initial_entry_count, which is only printed)
BaseEntryCount(reset, reading) == IF reset THEN reading ELSE reading

\* lines 1034-1095: the checks, then the baseline
ExecuteTradeEnter ==
    /\ pc = "executing"
    /\ epc = "idle"
    /\ IF PreCheck(config, CurrentTrade.direction, ui_oneclick) = "ok"
       THEN /\ \E r \in Readings :
                  /\ baseline_reading' = r
                  /\ base_entry_count' = BaseEntryCount(reset_entry_count, r)
            /\ epc' = "prepare"
            /\ ret' = "none"
       ELSE /\ epc' = "return"
            /\ ret' = IF PreCheck(config, CurrentTrade.direction, ui_oneclick) = "raise"
                      THEN OuterExcept
                      ELSE "False"
            /\ UNCHANGED <<base_entry_count, baseline_reading>>
    /\ UNCHANGED <<trade_i, current_entry_count, final_entry_count, actual_count,
                   trade_start_time, ui_oneclick, amount_entries, direction_clicks,
                   purchase_clicks, retry_clicks, deadline_seen>>
    /\ UNCHANGED <<fgVars, before_reset, later_threads, reset_entry_count>>
    /\ UNCHANGED <<clock, config, scheduled_trades, last_reset_date, is_running, pc, sched_ret,
                   sched_i, current_time, today, trades_to_execute, remaining_trades, exec_i,
                   executing, result, resets>>

\* lines 1107-1118: the deadline clock starts, the trading time is selected (a failure
\* only warns, an exception ends execute_trade at line 1254), one-click mode is switched
\* on when configured (the result of enable_oneclick_trading is not looked at)
Prepare ==
    /\ epc = "prepare"
    /\ trade_start_time' = clock
    /\ \E sel \in SelectTradingTimeOutcomes(config) :
          IF sel.res = "raise"
          THEN /\ epc' = "return"
               /\ ret' = OuterExcept
               /\ UNCHANGED <<clock, ui_oneclick>>
          ELSE /\ epc' = "iter"
               /\ UNCHANGED ret
               /\ IF UseOneClick(config)
                  THEN \E en \in EnableOneClickOutcomes(config, ui_oneclick) :
                          /\ ui_oneclick' = en.page
                          /\ clock' = clock + sel.ms + en.ms
                  ELSE /\ clock' = clock + sel.ms
                       /\ UNCHANGED ui_oneclick
    /\ UNCHANGED <<trade_i, base_entry_count, current_entry_count, final_entry_count,
                   actual_count, amount_entries, direction_clicks, purchase_clicks,
                   retry_clicks, deadline_seen>>
    /\ UNCHANGED <<fgVars, auxVars>>
    /\ UNCHANGED <<config, scheduled_trades, last_reset_date, is_running, pc, sched_ret,
                   sched_i, current_time, today, trades_to_execute, remaining_trades, exec_i,
                   executing, result, resets>>

\* lines 1230-1243: an exception inside the iteration, at instant now; the iteration is
\* given up, and the loop too when the budget is used up
IterationExcept(now) ==
    IF DeadlineReached(now - trade_start_time, Budget)
    THEN /\ epc' = "final"
         /\ deadline_seen' = TRUE
         /\ UNCHANGED trade_i
    ELSE /\ epc' = "iter"
         /\ trade_i' = trade_i + 1
         /\ UNCHANGED deadline_seen

\* `continue`: on to the next iteration
NextIteration ==
    /\ epc' = "iter"
    /\ trade_i' = trade_i + 1
    /\ UNCHANGED deadline_seen

\* lines 1121-1138: the head of the for loop, the deadline check of the iteration, and
\* set_amount
IterationStart ==
    /\ epc = "iter"
    /\ IF trade_i >= CurrentTrade.count
       THEN /\ epc' = "final"
            /\ UNCHANGED <<clock, trade_i, amount_entries, deadline_seen>>
       ELSE IF DeadlineReached(clock - trade_start_time, Budget)
       THEN /\ epc' = "final"
            /\ deadline_seen' = TRUE
            /\ UNCHANGED <<clock, trade_i, amount_entries>>
       ELSE \E a \in SetAmountOutcomes(config) :
               \/ /\ a.res = "True"
                  /\ amount_entries' = amount_entries + 1
                  /\ clock' = clock + a.ms + (WaitTime(config) * 3) \div 10
                  /\ epc' = "click"
                  /\ UNCHANGED <<trade_i, deadline_seen>>
               \/ /\ a.res = "False"
                  /\ clock' = clock + a.ms
                  /\ NextIteration
                  /\ UNCHANGED amount_entries
               \/ /\ a.res = "raise"
                  /\ IterationExcept(clock)
                  /\ UNCHANGED <<clock, amount_entries>>
    /\ UNCHANGED <<base_entry_count, current_entry_count, final_entry_count, actual_count,
                   trade_start_time, ret, ui_oneclick, direction_clicks, purchase_clicks,
                   retry_clicks>>
    /\ UNCHANGED <<fgVars, auxVars>>
    /\ UNCHANGED <<config, scheduled_trades, last_reset_date, is_running, pc, sched_ret,
                   sched_i, current_time, today, trades_to_execute, remaining_trades, exec_i,
                   executing, result, resets>>

\* lines 1141-1148: one-click mode, the direction button of every iteration
PrimaryClickOneClick ==
    /\ epc = "click"
    /\ UseOneClick(config)
    /\ \E d \in ClickOutcomes :
          \/ /\ d = "clicked"
             /\ direction_clicks' = direction_clicks + 1
             /\ clock' = clock + WaitTime(config) \div 2
             /\ epc' = "confirm"
             /\ UNCHANGED <<trade_i, deadline_seen>>
          \/ /\ d = "timeout"
             /\ clock' = clock + OneClickWaitMs
             /\ IterationExcept(clock + OneClickWaitMs)
             /\ UNCHANGED direction_clicks
          \/ /\ d = "error"
             /\ IterationExcept(clock)
             /\ UNCHANGED <<clock, direction_clicks>>
    /\ UNCHANGED <<base_entry_count, current_entry_count, final_entry_count, actual_count,
                   trade_start_time, ret, ui_oneclick, amount_entries, purchase_clicks,
                   retry_clicks>>
    /\ UNCHANGED <<fgVars, auxVars>>
    /\ UNCHANGED <<config, scheduled_trades, last_reset_date, is_running, pc, sched_ret,
                   sched_i, current_time, today, trades_to_execute, remaining_trades, exec_i,
                   executing, result, resets>>

\* ClicksDirection that has every iteration click the direction button
ClicksDirection_every(i) == TRUE

\* the direction button is clicked in normal mode: in the first iteration
ClicksDirection(i) == i = 0

\* lines 1150-1168: normal mode, the direction button in the first iteration only,
\* then the purchase button
PrimaryClickNormal ==
    /\ epc = "click"
    /\ ~UseOneClick(config)
    /\ \E d \in ClickOutcomes, p \in ClickOutcomes :
          LET dirMs == IF ClicksDirection(trade_i) THEN WaitTime(config) ELSE 0
              dirN == IF ClicksDirection(trade_i) THEN 1 ELSE 0
          IN  \/ /\ ClicksDirection(trade_i)
                 /\ d = "timeout"
                 /\ p = "clicked"
                 /\ clock' = clock + ElementWaitMs
                 /\ IterationExcept(clock + ElementWaitMs)
                 /\ UNCHANGED <<direction_clicks, purchase_clicks>>
              \/ /\ ClicksDirection(trade_i)
                 /\ d = "error"
                 /\ p = "clicked"
                 /\ IterationExcept(clock)
                 /\ UNCHANGED <<clock, direction_clicks, purchase_clicks>>
              \/ /\ d = "clicked"
                 /\ p = "clicked"
                 /\ direction_clicks' = direction_clicks + dirN
                 /\ purchase_clicks' = purchase_clicks + 1
                 /\ clock' = clock + dirMs + WaitTime(config)
                 /\ epc' = "confirm"
                 /\ UNCHANGED <<trade_i, deadline_seen>>
              \/ /\ d = "clicked"
                 /\ p = "timeout"
                 /\ direction_clicks' = direction_clicks + dirN
                 /\ clock' = clock + dirMs + ElementWaitMs
                 /\ IterationExcept(clock + dirMs + ElementWaitMs)
                 /\ UNCHANGED purchase_clicks
              \/ /\ d = "clicked"
                 /\ p = "error"
                 /\ direction_clicks' = direction_clicks + dirN
                 /\ clock' = clock + dirMs
                 /\ IterationExcept(clock + dirMs)
                 /\ UNCHANGED purchase_clicks
    /\ UNCHANGED <<base_entry_count, current_entry_count, final_entry_count, actual_count,
                   trade_start_time, ret, ui_oneclick, amount_entries, retry_clicks>>
    /\ UNCHANGED <<fgVars, auxVars>>
    /\ UNCHANGED <<config, scheduled_trades, last_reset_date, is_running, pc, sched_ret,
                   sched_i, current_time, today, trades_to_execute, remaining_trades, exec_i,
                   executing, result, resets>>

\* lines 1170-1182: the page is given time, the entry count is read and compared with
\* the count this iteration must reach
Confirm ==
    /\ epc = "confirm"
    /\ clock' = clock + ConfirmSleepMs
    /\ \E r \in Readings :
          /\ current_entry_count' = r
          /\ IF r >= ExpectedCount(base_entry_count, trade_i)
             THEN NextIteration
             ELSE /\ epc' = "retry"
                  /\ UNCHANGED <<trade_i, deadline_seen>>
    /\ UNCHANGED <<base_entry_count, final_entry_count, actual_count, trade_start_time, ret,
                   ui_oneclick, amount_entries, direction_clicks, purchase_clicks,
                   retry_clicks>>
    /\ UNCHANGED <<fgVars, auxVars>>
    /\ UNCHANGED <<config, scheduled_trades, last_reset_date, is_running, pc, sched_ret,
                   sched_i, current_time, today, trades_to_execute, remaining_trades, exec_i,
                   executing, result, resets>>

\* lines 1219-1228: after the retry loop, at instant now: the whole execution is given
\* up when the budget is used up (final_count is read for the log only), else the
\* iteration is over
AfterRetry(now) ==
    IF DeadlineReached(now - trade_start_time, Budget)
    THEN /\ epc' = "final"
         /\ deadline_seen' = TRUE
         /\ UNCHANGED trade_i
    ELSE NextIteration

\* the retry loop clicks the direction button in one-click mode, else the purchase button
RetryClicksDirection(cfg) == UseOneClick(cfg)

\* lines 1186-1217, one round of the retry loop: the deadline check, the click (a
\* TimeoutException is swallowed, any other exception leaves the iteration), the read
RetryRound ==
    /\ epc = "retry"
    /\ IF DeadlineReached(clock - trade_start_time, Budget)
       THEN /\ AfterRetry(clock)
            /\ UNCHANGED <<clock, current_entry_count, direction_clicks, purchase_clicks,
                           retry_clicks>>
       ELSE \E c \in ClickOutcomes :
               IF c = "error"
               THEN /\ IterationExcept(clock)
                    /\ UNCHANGED <<clock, current_entry_count, direction_clicks,
                                   purchase_clicks, retry_clicks>>
               ELSE LET clicked == IF c = "clicked" THEN 1 ELSE 0
                        now == IF c = "clicked"
                               THEN clock + WaitTime(config) \div 2
                               ELSE clock + RetryWaitMs
                    IN  /\ retry_clicks' = retry_clicks + clicked
                        /\ direction_clicks' =
                               IF RetryClicksDirection(config)
                               THEN direction_clicks + clicked
                               ELSE direction_clicks
                        /\ purchase_clicks' =
                               IF RetryClicksDirection(config)
                               THEN purchase_clicks
                               ELSE purchase_clicks + clicked
                        /\ \E r \in Readings :
                              /\ current_entry_count' = r
                              /\ IF r >= ExpectedCount(base_entry_count, trade_i)
                                 THEN /\ clock' = now
                                      /\ AfterRetry(now)
                                 ELSE /\ clock' = now + RetryCheckIntervalMs
                                      /\ UNCHANGED <<epc, trade_i, deadline_seen>>
    /\ UNCHANGED <<base_entry_count, final_entry_count, actual_count, trade_start_time, ret,
                   ui_oneclick, amount_entries>>
    /\ UNCHANGED <<fgVars, auxVars>>
    /\ UNCHANGED <<config, scheduled_trades, last_reset_date, is_running, pc, sched_ret,
                   sched_i, current_time, today, trades_to_execute, remaining_trades, exec_i,
                   executing, result, resets>>

\* lines 1245-1252: the final reading and the value returned
FinalCount ==
    /\ epc = "final"
    /\ \E r \in Readings :
          /\ final_entry_count' = r
          /\ actual_count' = ActualCount(r, base_entry_count)
          /\ ret' = IF ActualCount(r, base_entry_count) > 0 THEN "True" ELSE "False"
    /\ epc' = "return"
    /\ UNCHANGED <<trade_i, base_entry_count, current_entry_count, trade_start_time,
                   ui_oneclick, amount_entries, direction_clicks, purchase_clicks,
                   retry_clicks, deadline_seen>>
    /\ UNCHANGED <<fgVars, auxVars>>
    /\ UNCHANGED <<clock, config, scheduled_trades, last_reset_date, is_running, pc, sched_ret,
                   sched_i, current_time, today, trades_to_execute, remaining_trades, exec_i,
                   executing, result, resets>>

\* execute_trade returns to the loop of _trade_scheduler_thread (line 1574), which goes
\* on to the recurrence of the descriptor; the locals are gone. The call is in no try
\* block: an exception leaving execute_trade would end the thread
ExecuteTradeLeave ==
    /\ pc = "executing"
    /\ epc = "return"
    /\ executing' = executing \ {exec_i}
    /\ result' = OutcomeOf(trade_start_time # None, actual_count, CurrentTrade.count)
    /\ pc' = IF ret = "raised" THEN "dead" ELSE "recur"
    /\ epc' = "idle"
    /\ trade_i' = 0
    /\ base_entry_count' = 0
    /\ current_entry_count' = 0
    /\ final_entry_count' = 0
    /\ actual_count' = 0
    /\ trade_start_time' = None
    /\ ret' = "none"
    /\ amount_entries' = 0
    /\ direction_clicks' = 0
    /\ purchase_clicks' = 0
    /\ retry_clicks' = 0
    /\ deadline_seen' = FALSE
    /\ baseline_reading' = 0
    /\ UNCHANGED <<fgVars, before_reset, later_threads, reset_entry_count>>
    /\ UNCHANGED <<clock, config, scheduled_trades, last_reset_date, is_running, sched_ret,
                   sched_i, current_time, today, trades_to_execute, remaining_trades, exec_i,
                   resets, ui_oneclick>>

----------------------------------------------------------------------------
(* One cycle of the loop with its executions in detail                     *)

\* "06:30:00.500" by the names of the execution inputs
XBuy == [time |-> T0630, direction |-> "buy", count |-> 3, retry_seconds |-> 2]
XSell == [time |-> T0630, direction |-> "SELL"]
XHold == [time |-> T0630, direction |-> "hold", count |-> 1]
XZero == [time |-> T0630, direction |-> "sell", count |-> 2, retry_seconds |-> 0]

\* a complete configuration of normal mode, with 0.2 s between actions
XCfgNormal ==
    [trades |-> <<XBuy, XHold, XSell>>, default_amount |-> "500", default_time |-> "5m",
     buy_button_selector |-> "#buy", sell_button_selector |-> "#sell",
     purchase_button_selector |-> "#purchase", amount_input_selector |-> "#amount",
     time_dropdown_selector |-> "#time", time_list_selector |-> "#times",
     retry_seconds |-> 1, wait_time_between_actions |-> 200]

\* one-click mode, with the toggle configured
XCfgOneClick ==
    [trades |-> <<XBuy, XZero>>, default_amount |-> "500", default_time |-> "5m",
     buy_button_selector |-> "#buy", sell_button_selector |-> "#sell",
     purchase_button_selector |-> "#purchase", amount_input_selector |-> "#amount",
     time_dropdown_selector |-> "#time", time_list_selector |-> "#times",
     retry_seconds |-> 1, use_oneclick_trading |-> TRUE,
     oneclick_toggle_selector |-> "#toggle"]

\* normal mode with the sell button left empty and no purchase selector at all
XCfgNoSell ==
    [trades |-> <<XSell, XBuy>>, default_amount |-> "500", default_time |-> "5m",
     buy_button_selector |-> "#buy", sell_button_selector |-> "",
     amount_input_selector |-> "#amount",
     time_dropdown_selector |-> "#time", time_list_selector |-> "#times",
     retry_seconds |-> 1]

\* normal mode with the purchase selector left empty, and no buy selector at all
XCfgNoPurchase ==
    [trades |-> <<XSell, XBuy>>, default_amount |-> "500", default_time |-> "5m",
     sell_button_selector |-> "#sell", purchase_button_selector |-> "",
     amount_input_selector |-> "#amount",
     time_dropdown_selector |-> "#time", time_list_selector |-> "#times",
     retry_seconds |-> 1]

ExecConfigs == {XCfgNormal, XCfgOneClick, XCfgNoSell, XCfgNoPurchase}

\* the instant of the cycle: the trigger of the descriptors, before the reset hour
ExecStart == ReplaceFromString(0, T0630)

\* schedule_trades of cfg at instant now, as ScheduleTradesStep does it
RECURSIVE ScheduleAll(_, _, _)
ScheduleAll(cfg, k, now) ==
    IF k > Len(cfg.trades) THEN <<>>
    ELSE <<ScheduledTrade(cfg, cfg.trades[k], now)>> \o ScheduleAll(cfg, k + 1, now)

\* the loop, started at midnight with the schedule of its configuration, is past the
\* partition of the cycle in which its descriptors are due
InitExec ==
    /\ clock = ExecStart
    /\ config \in ExecConfigs
    /\ scheduled_trades = ScheduleAll(config, 1, 0)
    /\ last_reset_date = None
    /\ is_running = TRUE
    /\ pc = "dispatch"
    /\ sched_ret = "main"
    /\ sched_i = Len(config.trades) + 1
    /\ current_time = ExecStart
    /\ today = 0
    /\ trades_to_execute = DueTrades(scheduled_trades, ExecStart)
    /\ remaining_trades = NotDueTrades(scheduled_trades, ExecStart)
    /\ exec_i = 1
    /\ executing = {}
    /\ result = "none"
    /\ resets = <<>>
    /\ ExecIdle
    /\ ui_oneclick \in BOOLEAN
    /\ fg = "wait"
    /\ driver = "session"
    /\ before_reset = NoSnapshot
    /\ later_threads = 0
    /\ reset_entry_count = TRUE
    /\ baseline_reading = 0

NextExec ==
    \/ ExecuteTradeCall
    \/ ExecuteTradeEnter
    \/ Prepare
    \/ IterationStart
    \/ PrimaryClickOneClick
    \/ PrimaryClickNormal
    \/ Confirm
    \/ RetryRound
    \/ FinalCount
    \/ ExecuteTradeLeave
    \/ Recurrence
    \/ EndOfCycle

SpecExec == InitExec /\ [][NextExec]_vars

----------------------------------------------------------------------------
(* Properties                                                              *)

\* the time strings of the inputs that are well-formed "HH:MM:SS[.fff]"
WellFormedTimes == {T0700, T2300, T0630}

\* the time of day, in ms, a well-formed time string names
NamedTimeOfDay(s) ==
    s[1][1] * MsPerHour + s[2][1] * MsPerMinute + s[3][1] * 1000
        + (IF Len(s[3]) > 1 THEN s[3][2] ELSE 0)

\* the step of schedule_trades that handles one raw trade
IsScheduleStep == pc = "sched" /\ sched_i' = sched_i + 1

\* C1: schedule_trades turns every raw trade with a well-formed time of day t, at the
\* instant now it reads, into one descriptor whose trigger is t today when t > now and
\* t on the next day when t <= now; the trigger is strictly later than now.
C1_ScheduleTrigger ==
    [][(IsScheduleStep /\ config.trades[sched_i].time \in WellFormedTimes) =>
          LET t == NamedTimeOfDay(config.trades[sched_i].time)
              d == Last(scheduled_trades')
          IN  /\ Len(scheduled_trades') = Len(scheduled_trades) + 1
              /\ d.original_time = config.trades[sched_i].time
              /\ d.time = IF t > TimeOfDay(clock)
                          THEN Date(clock) * MsPerDay + t
                          ELSE (Date(clock) + 1) * MsPerDay + t
              /\ d.time > clock]_vars

\* scheduling at exactly the trade's time of day has moved it to the next day
C1_Witness ==
    /\ pc = "sched"
    /\ sched_i > 1
    /\ scheduled_trades # <<>>
    /\ Last(scheduled_trades).time = clock + MsPerDay

\* where the loop is between the partition and the replacement of the schedule
InCycle == pc \in {"dispatch", "executing", "recur", "replace"}

\* C2: in a cycle, the descriptors handed to execute_trade are exactly those of the
\* schedule whose trigger is <= the timestamp read at the top of the cycle, none is in
\* execution before its trigger, every one of them has been handed over when the cycle
\* ends, and the others are kept, in order, for a later cycle.
C2_PartitionByCycleTimestamp ==
    InCycle =>
        LET due == SelectSeq(scheduled_trades, LAMBDA d : d.time <= current_time)
            keep == SelectSeq(scheduled_trades, LAMBDA d : d.time > current_time)
        IN  /\ trades_to_execute = due
            /\ Len(remaining_trades) >= Len(keep)
            /\ SubSeq(remaining_trades, 1, Len(keep)) = keep
            /\ current_time <= clock
            /\ \A k \in executing :
                  /\ k \in 1..Len(due)
                  /\ due[k].time <= current_time
                  /\ due[k].time <= clock
            /\ exec_i \in 1..(Len(due) + 1)
            /\ (pc = "replace" => exec_i = Len(due) + 1)
            /\ (pc # "replace" => exec_i <= Len(due))

\* a descriptor whose trigger equals the cycle's timestamp is in execution while another
\* one waits for a later cycle
C2_Witness ==
    /\ pc = "executing"
    /\ trades_to_execute[exec_i].time = current_time
    /\ remaining_trades # <<>>
    /\ remaining_trades[1].time > current_time

\* C3: at most one execute_trade is in progress, and the loop does nothing else (no
\* recurrence, no further dispatch, no replacement) until it has returned.
C3_OneExecutionAtATime ==
    /\ Cardinality(executing) <= 1
    /\ (executing # {} => pc = "executing" /\ executing = {exec_i})
    /\ (pc = "executing" => executing = {exec_i})

\* the second due descriptor of a cycle is in execution, after the first has returned
C3_Witness ==
    /\ pc = "executing"
    /\ exec_i = 2
    /\ executing = {2}
    /\ Len(remaining_trades) >= 1

\* next is a next occurrence of d: d with a later trigger at the same time of day
IsNextOccurrenceOf(next, d) ==
    /\ next.direction = d.direction
    /\ next.count = d.count
    /\ next.amount = d.amount
    /\ next.trading_time = d.trading_time
    /\ next.retry_seconds = d.retry_seconds
    /\ next.comment = d.comment
    /\ next.original_time = d.original_time
    /\ TimeOfDay(next.time) = TimeOfDay(d.time)
    /\ next.time > d.time

\* C4: the schedule a cycle ends with is the descriptors not yet due, in their order,
\* followed by one next occurrence of each descriptor dispatched in the cycle, in the
\* order of dispatch, whatever the executions returned.
C4_EndOfCycleSchedule ==
    [][(pc = "replace" /\ pc' # "replace") =>
          LET due == SelectSeq(scheduled_trades, LAMBDA d : d.time <= current_time)
              keep == SelectSeq(scheduled_trades, LAMBDA d : d.time > current_time)
          IN  /\ Len(scheduled_trades') = Len(keep) + Len(due)
              /\ SubSeq(scheduled_trades', 1, Len(keep)) = keep
              /\ \A i \in 1..Len(due) :
                    IsNextOccurrenceOf(scheduled_trades'[Len(keep) + i], due[i])]_vars

\* a cycle that kept one descriptor and dispatched another, whose execution failed on
\* its configuration checks, is about to replace the schedule
C4_Witness ==
    /\ pc = "replace"
    /\ trades_to_execute # <<>>
    /\ Len(remaining_trades) > Len(trades_to_execute)
    /\ result = "config_failure"

\* the step that appends a next occurrence
IsRecurrenceStep == pc = "recur" /\ exec_i' = exec_i + 1

\* C5: the trigger of the next occurrence is exactly one day after the trigger of the
\* descriptor dispatched, at whatever instant its execution finished.
C5_RecurrenceOneDay ==
    [][IsRecurrenceStep =>
          /\ Len(remaining_trades') = Len(remaining_trades) + 1
          /\ Last(remaining_trades').time = trades_to_execute[exec_i].time + MsPerDay]_vars

\* C6: the next occurrence has the direction, count, amount, trading duration, retry
\* budget override, comment and original time of day of the descriptor dispatched.
C6_RecurrenceKeepsFields ==
    [][IsRecurrenceStep =>
          LET d == trades_to_execute[exec_i]
              next == Last(remaining_trades')
          IN  /\ Len(remaining_trades') = Len(remaining_trades) + 1
              /\ next.direction = d.direction
              /\ next.count = d.count
              /\ next.amount = d.amount
              /\ next.trading_time = d.trading_time
              /\ next.retry_seconds = d.retry_seconds
              /\ next.comment = d.comment
              /\ next.original_time = d.original_time]_vars

\* the next occurrence of a next occurrence of the trade that sets every field
C6_Witness ==
    /\ pc = "replace"
    /\ resets = <<>>
    /\ remaining_trades # <<>>
    /\ Last(remaining_trades).time >= 2 * MsPerDay
    /\ Last(remaining_trades).retry_seconds = 0
    /\ Last(remaining_trades).comment = "late"
    /\ Last(remaining_trades).count = 2

\* the step of _check_daily_reset that reads now and decides
IsCheckStep == pc = "reset" /\ pc' # "reset"

\* a reload_config is running for the date d
ReloadingFor(d) ==
    /\ \/ pc = "reload"
       \/ pc = "sched" /\ sched_ret = "reload"
    /\ today = d

\* C7: a check with last_reset_date different from today at an hour >= 7 runs a reset;
\* no two resets succeed for the same date; once one has succeeded for date d, no check
\* on date d reloads the configuration or rebuilds the schedule.
C7_ResetOncePerDay ==
    /\ [](\A i, j \in DOMAIN resets : i # j => resets[i] # resets[j])
    /\ [](\A i \in DOMAIN resets : ~ReloadingFor(resets[i]))
    /\ [][(IsCheckStep /\ last_reset_date # Date(clock) /\ Hour(clock) >= ResetHour) =>
             pc' = "reload"]_vars
    /\ [][(IsCheckStep /\ \E i \in DOMAIN resets : resets[i] = Date(clock)) =>
             /\ pc' = "partition"
             /\ UNCHANGED <<config, scheduled_trades, last_reset_date>>]_vars

\* the second day's reset has succeeded and a check of a later cycle of that day (one
\* in which a descriptor scheduled since is due) has passed it by
C7_Witness ==
    /\ Len(resets) = 2
    /\ pc = "partition"
    /\ today = resets[2]
    /\ last_reset_date = today
    /\ \E i \in DOMAIN scheduled_trades : scheduled_trades[i].time <= current_time

\* C8: a check whose now is before 07:00 goes straight on to the partition: it does not
\* reload the configuration and changes neither the schedule nor last_reset_date.
C8_NoResetBeforeSeven ==
    [][(IsCheckStep /\ Hour(clock) < ResetHour) =>
          /\ pc' = "partition"
          /\ UNCHANGED <<config, scheduled_trades, last_reset_date>>]_vars

\* a check before 07:00 of the second day, with the first day's reset as the last one
C8_Witness ==
    /\ pc = "partition"
    /\ today = Date(clock)
    /\ Hour(clock) < ResetHour
    /\ last_reset_date # None
    /\ last_reset_date # today

\* the descriptors scheduling cfg produces, but for their triggers
ExpectedFields(cfg) ==
    LET good == SelectSeq(cfg.trades, LAMBDA tr : tr.time \in WellFormedTimes)
    IN  [i \in 1..Len(good) |->
            [direction |-> good[i].direction,
             count |-> IF "count" \in DOMAIN good[i] THEN good[i].count ELSE 1,
             amount |-> IF "amount" \in DOMAIN good[i] THEN good[i].amount
                        ELSE cfg.default_amount,
             trading_time |-> IF "trading_time" \in DOMAIN good[i] THEN good[i].trading_time
                              ELSE cfg.default_time,
             retry_seconds |-> IF "retry_seconds" \in DOMAIN good[i]
                               THEN good[i].retry_seconds ELSE None,
             comment |-> IF "comment" \in DOMAIN good[i] THEN good[i].comment ELSE "",
             original_time |-> good[i].time]]

FieldsOf(d) ==
    [direction |-> d.direction, count |-> d.count, amount |-> d.amount,
     trading_time |-> d.trading_time, retry_seconds |-> d.retry_seconds,
     comment |-> d.comment, original_time |-> d.original_time]

\* C9: when a daily reset succeeds, the schedule is exactly what scheduling the reloaded
\* configuration gives: one descriptor per well-formed raw trade, in order, each with a
\* trigger at its time of day after the cycle's timestamp and within a day of now;
\* nothing that was pending is left; last_reset_date is the check's today.
C9_ResetRebuildsSchedule ==
    [][resets' # resets =>
          /\ last_reset_date' = today
          /\ today \in Date(current_time)..Date(clock)
          /\ Len(scheduled_trades') = Len(ExpectedFields(config'))
          /\ \A i \in 1..Len(scheduled_trades') :
                /\ FieldsOf(scheduled_trades'[i]) = ExpectedFields(config')[i]
                /\ TimeOfDay(scheduled_trades'[i].time)
                       = NamedTimeOfDay(scheduled_trades'[i].original_time)
                /\ scheduled_trades'[i].time > current_time
                /\ scheduled_trades'[i].time <= clock + MsPerDay]_vars

\* the second day's reset has just succeeded, with another configuration than the
\* program started with
C9_Witness ==
    /\ pc = "partition"
    /\ Len(resets) = 2
    /\ last_reset_date = today
    /\ today = Date(clock)
    /\ config = CfgB
    /\ Len(scheduled_trades) = 2

\* the step in which _load_config fails, by an exception or by sys.exit
IsFailedLoadStep == pc = "reload" /\ pc' \notin {"reload", "sched"}

\* C10: when the reload of a daily reset fails, last_reset_date is not advanced and the
\* scheduler loop keeps running, so that the next cycle attempts the reset again.
C10_FailedReloadKeepsLoopRunning ==
    [][IsFailedLoadStep =>
          /\ last_reset_date' = last_reset_date
          /\ pc' = "partition"]_vars

----------------------------------------------------------------------------
(* Properties of execute_trade, under SpecExec                             *)

\* the page has been touched by the running execute_trade
PageTouched == amount_entries + direction_clicks + purchase_clicks + retry_clicks > 0

\* the step reads base_entry_count
IsBaselineStep == epc = "idle" /\ epc' = "prepare"

\* the step is the first reading of an iteration's count, after its clicks
IsConfirmStep == epc = "confirm" /\ epc' # "confirm"

\* the step is a round of the retry loop that read the count and stays in the loop
IsRetryAgainStep == epc = "retry" /\ epc' = "retry" /\ clock' # clock

\* the step computes the count execute_trade reports
IsFinalStep == epc = "final" /\ epc' = "return"

\* C11: the baseline B is read before anything is done to the page and kept to the
\* end; iteration i passes its confirmation exactly when the reading is at least
\* B + i + 1 (B + count for the last one) and is retried only while the reading is
\* below it; the count reported is the final reading, taken after the last iteration
\* or the abort, minus B.
C11_CountAgainstBaseline ==
    /\ [][IsBaselineStep => ~PageTouched /\ ~PageTouched']_vars
    /\ [][epc # "idle" /\ epc' # "idle" => base_entry_count' = base_entry_count]_vars
    /\ [][IsConfirmStep =>
             /\ (epc' = "iter" /\ trade_i' = trade_i + 1)
                    <=> current_entry_count' >= base_entry_count + trade_i + 1
             /\ epc' = "retry" <=> current_entry_count' < base_entry_count + trade_i + 1
             /\ trade_i = CurrentTrade.count - 1 /\ epc' = "iter"
                    => current_entry_count' >= base_entry_count + CurrentTrade.count]_vars
    /\ [][IsRetryAgainStep => current_entry_count' < base_entry_count + trade_i + 1]_vars
    /\ [][IsFinalStep =>
             /\ actual_count' = final_entry_count' - base_entry_count
             /\ PageTouched' = PageTouched]_vars

\* B = 4, count = 3, the deadline cut the execution short and the final reading is 6:
\* 2 is reported
C11_Witness ==
    /\ epc = "return"
    /\ base_entry_count = 4
    /\ CurrentTrade.count = 3
    /\ deadline_seen
    /\ purchase_clicks > 0
    /\ final_entry_count = 6
    /\ actual_count = 2

\* milliseconds since trade_start_time
Elapsed == clock - trade_start_time

\* the retry budget of the running execute_trade, in ms
BudgetMs == Budget * 1000

\* what has been done to the page by the running execute_trade
PageActions == <<amount_entries, direction_clicks, purchase_clicks, retry_clicks>>

\* C12: the deadline is one instant, trade_start_time plus the budget, set once and the
\* same for all iterations; an iteration that starts with the budget used up does nothing
\* but end the loop; an amount is entered or a retry click issued only after a check that
\* found budget left; and once a check has found the budget used up, nothing more is
\* done to the page.
C12_SingleDeadline ==
    /\ [][epc \notin {"idle", "prepare"} /\ epc' # "idle"
             => trade_start_time' = trade_start_time]_vars
    /\ [][epc = "iter" /\ trade_i < CurrentTrade.count /\ Elapsed >= BudgetMs
             => epc' = "final" /\ deadline_seen' /\ PageActions' = PageActions]_vars
    /\ [][amount_entries' > amount_entries => epc = "iter" /\ Elapsed < BudgetMs]_vars
    /\ [][retry_clicks' > retry_clicks => epc = "retry" /\ Elapsed < BudgetMs]_vars
    /\ [][deadline_seen /\ epc' # "idle" => PageActions' = PageActions]_vars

\* the loop was ended by the deadline before its last iteration, after earlier
\* iterations had entered amounts and clicked
C12_Witness ==
    /\ epc = "final"
    /\ deadline_seen
    /\ trade_i >= 1
    /\ trade_i < CurrentTrade.count
    /\ amount_entries >= 2
    /\ direction_clicks >= 2

\* C13: an execute_trade with retry budget R on a page where no amount could be entered
\* and no button clicked has returned no later than R plus one poll interval (the 0.1 s
\* of the retry loop) after trade_start_time.
C13_BoundedResponse ==
    epc = "return" /\ trade_start_time # None /\ ~PageTouched
        => Elapsed <= BudgetMs + RetryCheckIntervalMs

\* the step leaves the retry loop of an iteration
IsRetryExitStep == epc = "retry" /\ epc' # "retry"

\* C14: while the count is below B + i + 1 the retry loop clicks again (the purchase
\* button in normal mode, the direction button in one-click mode) and reads again; the
\* loop is left only when the reading has reached B + i + 1 or the deadline has passed;
\* no retry click is issued once the deadline has been seen to have passed.
C14_ConfirmationRetry ==
    /\ [][IsRetryExitStep =>
             \/ current_entry_count' >= base_entry_count + trade_i + 1
             \/ Elapsed >= BudgetMs
             \/ clock' - trade_start_time >= BudgetMs]_vars
    /\ [][retry_clicks' > retry_clicks =>
             IF UseOneClick(config)
             THEN direction_clicks' = direction_clicks + 1 /\ UNCHANGED purchase_clicks
             ELSE purchase_clicks' = purchase_clicks + 1 /\ UNCHANGED direction_clicks]_vars
    /\ [][deadline_seen /\ epc' # "idle" => UNCHANGED retry_clicks]_vars

\* clicks on the direction button that the iterations issued themselves, not their
\* retry loops
PrimaryDirectionClicks ==
    IF RetryClicksDirection(config) THEN direction_clicks - retry_clicks ELSE direction_clicks

\* clicks on the purchase button that the iterations issued themselves
PrimaryPurchaseClicks ==
    IF RetryClicksDirection(config) THEN purchase_clicks ELSE purchase_clicks - retry_clicks

\* an execute_trade that passed its checks has returned
ReturnedAfterStart == epc = "return" /\ trade_start_time # None

\* C15, as stated: in one-click mode each of the count iterations issues exactly one
\* direction click and no purchase click; in normal mode the direction button is
\* clicked in iteration 0 only and the purchase button in every iteration.
C15_ClickCounts ==
    ReturnedAfterStart =>
        IF UseOneClick(config)
        THEN PrimaryDirectionClicks = CurrentTrade.count /\ purchase_clicks = 0
        ELSE PrimaryDirectionClicks = 1 /\ PrimaryPurchaseClicks = CurrentTrade.count

\* the step is the click step of an iteration
IsPrimaryClickStep == epc = "click" /\ epc' # "click"

\* C15, amended: in one-click mode no purchase click is ever issued, and an iteration
\* issues one direction click of its own when it gets as far as its click step and finds
\* the button, else none (its retries add direction clicks); in normal mode the
\* direction button is clicked at most once in the whole execution, by iteration 0 and
\* never by a retry, and an iteration that finds its buttons clicks the purchase button
\* once (its retries add purchase clicks). An iteration cut off by the deadline, by a
\* failed amount entry or by a button that cannot be clicked issues fewer clicks, so
\* the totals are at most, not exactly, one per iteration.
C15_ClickCountsAmended ==
    /\ [](epc # "idle" =>
             /\ PrimaryDirectionClicks <= (IF UseOneClick(config) THEN CurrentTrade.count ELSE 1)
             /\ PrimaryPurchaseClicks <= (IF UseOneClick(config) THEN 0 ELSE CurrentTrade.count)
             /\ UseOneClick(config) => purchase_clicks = 0)
    /\ [][IsPrimaryClickStep /\ UseOneClick(config) =>
             /\ epc' = "confirm" => direction_clicks' = direction_clicks + 1
             /\ epc' # "confirm" => direction_clicks' = direction_clicks
             /\ UNCHANGED retry_clicks]_vars
    /\ [][~UseOneClick(config) /\ direction_clicks' > direction_clicks =>
             /\ epc = "click"
             /\ trade_i = 0
             /\ direction_clicks = 0
             /\ direction_clicks' = 1]_vars
    /\ [][IsPrimaryClickStep /\ ~UseOneClick(config) =>
             /\ epc' = "confirm" =>
                    /\ purchase_clicks' = purchase_clicks + 1
                    /\ direction_clicks' = direction_clicks + (IF trade_i = 0 THEN 1 ELSE 0)
             /\ epc' # "confirm" => purchase_clicks' = purchase_clicks
             /\ UNCHANGED retry_clicks]_vars
    /\ [][amount_entries' = amount_entries /\ epc = "iter" /\ epc' # "idle"
             => UNCHANGED <<direction_clicks, purchase_clicks>>]_vars

\* normal mode: the second iteration has clicked the purchase button after the first had
\* clicked both buttons, and a retry has clicked the purchase button again
C15_Witness ==
    /\ ~UseOneClick(config)
    /\ epc = "retry"
    /\ trade_i = 1
    /\ direction_clicks = 1
    /\ PrimaryPurchaseClicks = 2
    /\ retry_clicks >= 1

\* the selector configured under key is absent or empty
NoSelector(cfg, key) == IF key \in DOMAIN cfg THEN cfg[key] = "" ELSE TRUE

\* the configuration errors of a descriptor's execution: a direction that is neither buy
\* nor sell, no selector for the button of its direction, or, in normal mode, no
\* selector for the purchase button
ConfigurationError(cfg, direction) ==
    \/ Lower(direction) \notin {"buy", "sell"}
    \/ Lower(direction) = "buy" /\ NoSelector(cfg, "buy_button_selector")
    \/ Lower(direction) = "sell" /\ NoSelector(cfg, "sell_button_selector")
    \/ ~UseOneClick(cfg) /\ NoSelector(cfg, "purchase_button_selector")

\* the step is the first of an execute_trade
IsEnterStep == epc = "idle" /\ epc' # "idle"

\* C16: an execute_trade whose configuration is in error returns False at once: no time
\* passes, no baseline is read, no amount is entered, nothing is clicked, nothing is
\* retried, up to its return to the loop.
C16_ConfigErrorsFailFast ==
    /\ [][IsEnterStep /\ ConfigurationError(config, CurrentTrade.direction) =>
             /\ epc' = "return"
             /\ ret' = "False"
             /\ clock' = clock
             /\ trade_start_time' = None
             /\ ~PageTouched']_vars
    /\ [](epc = "return" /\ ConfigurationError(config, CurrentTrade.direction) =>
             /\ ret = "False"
             /\ ~PageTouched
             /\ trade_i = 0
             /\ ~deadline_seen)

\* the second descriptor has failed on the missing buy selector after the first failed
\* on the empty purchase selector
C16_Witness ==
    /\ config = XCfgNoPurchase
    /\ exec_i = 2
    /\ result = "config_failure"
    /\ epc = "return"
    /\ ret = "False"
    /\ clock = ExecStart

\* the page is not in the mode the configuration asks for: normal mode configured and
\* no purchase button shown, or one-click mode configured and a purchase button shown
ModeMismatch == UseOneClick(config) # ui_oneclick

\* C17: when, the checks and the preparation done, the page is not in the configured
\* mode, in either direction, the execution is skipped: no amount is entered and no
\* button clicked.
C17_ModeMismatchSkips ==
    epc \notin {"idle", "prepare"} /\ ModeMismatch => ~PageTouched

\* the step is the return of an execute_trade to the loop
IsLeaveStep == epc = "return" /\ epc' = "idle"

\* C18: whatever happens inside execute_trade (a configuration error, a missing key, an
\* element that does not appear, a failing click, the deadline), it ends by returning a
\* value, False when no entry was confirmed, and never by an exception; the thread goes
\* on to the recurrence of the descriptor, which is appended for the next day whatever
\* the value, and from there to the next due descriptor of the cycle, if there is one.
C18_FailureDoesNotStopLoop ==
    /\ [](pc # "dead")
    /\ [](epc = "return" =>
             /\ ret \in {"True", "False"}
             /\ ret = "True" => actual_count > 0)
    /\ [][IsLeaveStep =>
             /\ pc' = "recur"
             /\ UNCHANGED <<is_running, trades_to_execute, remaining_trades, exec_i>>]_vars
    /\ [][IsRecurrenceStep =>
             /\ Len(remaining_trades') = Len(remaining_trades) + 1
             /\ IsNextOccurrenceOf(Last(remaining_trades'), trades_to_execute[exec_i])
             /\ exec_i < Len(trades_to_execute) => pc' = "dispatch"
             /\ exec_i = Len(trades_to_execute) => pc' = "replace"]_vars

\* the third descriptor of the cycle is being executed after the first returned and the
\* second failed on its direction; both have their next occurrence
C18_Witness ==
    /\ exec_i = 3
    /\ epc = "confirm"
    /\ result = "config_failure"
    /\ Len(remaining_trades) = 2
    /\ remaining_trades[1].direction = "buy"
    /\ remaining_trades[2].direction = "hold"

----------------------------------------------------------------------------
(* Properties of schedule_trades on malformed entries, under SpecSched     *)

\* s is a time of day "HH:MM:SS" or "HH:MM:SS.fff": three fields, the third of one or
\* two tokens, all of them integers in range
WellFormedTimeString(s) ==
    /\ Len(s) = 3
    /\ Len(s[1]) = 1
    /\ Len(s[2]) = 1
    /\ Len(s[3]) \in {1, 2}
    /\ s[1][1] \in 0..23
    /\ s[2][1] \in 0..59
    /\ s[3][1] \in 0..59
    /\ Len(s[3]) = 2 => s[3][2] \in 0..999

\* the entries of trades, up to the k-th, whose time string is well formed
WellFormedUpTo(trades, k) ==
    {j \in 1..k : j <= Len(trades) /\ WellFormedTimeString(trades[j].time)}

\* C19: schedule_trades skips each entry whose time string is malformed (a wrong number
\* of fields, a field that is no number, a field out of range) and schedules each entry
\* whose time string is well formed, wherever it stands in the list: after k entries the
\* descriptors added are as many as the well-formed entries among them.
C19_MalformedEntriesSkipped ==
    /\ [][IsScheduleStep /\ sched_ret = "main" =>
             IF WellFormedTimeString(config.trades[sched_i].time)
             THEN /\ Len(scheduled_trades') = Len(scheduled_trades) + 1
                  /\ Last(scheduled_trades').original_time = config.trades[sched_i].time
             ELSE scheduled_trades' = scheduled_trades]_vars
    /\ [](pc = "sched" /\ sched_ret = "main" =>
             Len(scheduled_trades) = Cardinality(WellFormedUpTo(config.trades, sched_i - 1)))

----------------------------------------------------------------------------
(* Properties of the scheduler loop, under Spec                            *)

\* C20: while the run flag is true the scheduler thread has not ended, whatever happened
\* in its cycles: a failed or aborted reload of the configuration, a recurrence that
\* does not parse, a failed execution, an empty schedule.
C20_LoopRunsUntilStop == is_running => pc \notin Terminal

----------------------------------------------------------------------------
(* Stopping: the foreground thread of start_trading and the end of main    *)

\* close_browser: quits the driver and forgets it
CloseBrowser(d) == "None"

\* what a stop does to self.driver when it closes the browser on the way out
DriverAfterStop_close(d) == CloseBrowser(d)

\* what a stop does to self.driver: the handler returns, the wait loop falls through, and
\* main has no finally; none of them calls close_browser
DriverAfterStop(d) == d

\* what a stop does to self.scheduled_trades when it empties the schedule
ScheduleAfterStop_clear(trades) == <<>>

\* what a stop does to self.scheduled_trades: start_trading and stop_trading assign
\* self.is_running only
ScheduleAfterStop(trades) == trades

\* KeyboardInterrupt in the wait loop of start_trading: the handler clears the run flag
\* and goes to join the thread
Interrupt ==
    /\ fg = "wait"
    /\ is_running' = FALSE
    /\ fg' = "join"
    /\ driver' = DriverAfterStop(driver)
    /\ scheduled_trades' = ScheduleAfterStop(scheduled_trades)
    /\ UNCHANGED <<clock, config, last_reset_date, pc, sched_ret, sched_i, current_time, today,
                   trades_to_execute, remaining_trades, exec_i, executing, result, resets>>
    /\ UNCHANGED <<execVars, auxVars>>

\* scheduler_thread.join(timeout=1) returns, because the thread has ended or because
\* the second is over; only an execute_trade keeps the thread for that long. The handler
\* returns, main leaves its menu loop and returns
JoinReturn ==
    /\ fg = "join"
    /\ pc \in Terminal \/ pc = "executing"
    /\ fg' = "done"
    /\ driver' = DriverAfterStop(driver)
    /\ UNCHANGED <<clock, config, scheduled_trades, last_reset_date, is_running, pc, sched_ret,
                   sched_i, current_time, today, trades_to_execute, remaining_trades, exec_i,
                   executing, result, resets>>
    /\ UNCHANGED <<execVars, auxVars>>

\* `while self.is_running: time.sleep(0.1)` finds the flag cleared: start_trading
\* returns, main leaves its menu loop and returns
ForegroundIdleCheck ==
    /\ fg = "wait"
    /\ ~is_running
    /\ fg' = "done"
    /\ driver' = DriverAfterStop(driver)
    /\ UNCHANGED <<clock, config, scheduled_trades, last_reset_date, is_running, pc, sched_ret,
                   sched_i, current_time, today, trades_to_execute, remaining_trades, exec_i,
                   executing, result, resets>>
    /\ UNCHANGED <<execVars, auxVars>>

\* main has returned and the interpreter exits: the scheduler thread is a daemon thread,
\* so it is not waited for and ends wherever it is
ProcessExit ==
    /\ fg = "done"
    /\ pc \notin Terminal
    /\ pc' = "killed"
    /\ UNCHANGED <<clock, config, scheduled_trades, last_reset_date, is_running, sched_ret,
                   sched_i, current_time, today, trades_to_execute, remaining_trades, exec_i,
                   executing, result, resets>>
    /\ UNCHANGED <<execVars, fgVars, auxVars>>

\* the program of Spec together with its foreground thread
NextStop ==
    \/ Tick
    \/ MainScheduleTrades
    \/ ScheduleTradesRaise
    \/ ScheduleTradesStep
    \/ ScheduleTradesReturnMain
    \/ ScheduleTradesReturnReload
    \/ StartTrading
    \/ StopTrading
    \/ Interrupt
    \/ JoinReturn
    \/ ForegroundIdleCheck
    \/ ProcessExit
    \/ LoopTop
    \/ CheckDailyReset
    \/ ReloadConfig
    \/ Partition
    \/ ExecuteTradeCall
    \/ ExecuteTradeReturn
    \/ Recurrence
    \/ EndOfCycle

SpecStop == Init /\ [][NextStop]_vars

\* a step of the scheduler thread
ThreadStep ==
    \/ ScheduleTradesRaise
    \/ ScheduleTradesStep
    \/ ScheduleTradesReturnReload
    \/ LoopTop
    \/ CheckDailyReset
    \/ ReloadConfig
    \/ Partition
    \/ ExecuteTradeCall
    \/ ExecuteTradeReturn
    \/ Recurrence
    \/ EndOfCycle

\* a step of the foreground thread after the start, and the exit of the interpreter
ForegroundStep == JoinReturn \/ ForegroundIdleCheck \/ ProcessExit

\* SpecStop with both threads scheduled: neither waits forever to take a step it can
\* take, and every execute_trade returns
SpecStopFair == SpecStop /\ WF_vars(ThreadStep) /\ WF_vars(ForegroundStep)

----------------------------------------------------------------------------
(* Properties of stopping                                                  *)

\* the run flag has been set by start_trading and cleared again
StopRequested == fg # "main" /\ ~is_running

\* C21: once the run flag has been cleared, the scheduler loop finishes its cycle and
\* leaves at its next `while self.is_running`, and the foreground thread leaves its wait,
\* provided every execute_trade returns.
C21_StopHonoured == StopRequested ~> (pc = "stopped" /\ fg = "done")

\* one cycle of the loop with its executions in detail, together with the foreground
\* thread: what SpecExec has, and the stops
NextStopExec ==
    \/ ExecuteTradeCall
    \/ ExecuteTradeEnter
    \/ Prepare
    \/ IterationStart
    \/ PrimaryClickOneClick
    \/ PrimaryClickNormal
    \/ Confirm
    \/ RetryRound
    \/ FinalCount
    \/ ExecuteTradeLeave
    \/ Recurrence
    \/ EndOfCycle
    \/ StopTrading
    \/ Interrupt
    \/ JoinReturn
    \/ ForegroundIdleCheck
    \/ ProcessExit

\* a descriptor of two orders with a budget of a second
XTwo == [time |-> T0630, direction |-> "buy", count |-> 2, retry_seconds |-> 1]

\* normal mode and one-click mode, each with that one descriptor
StopConfigs ==
    {[XCfgNormal EXCEPT !.trades = <<XTwo>>], [XCfgOneClick EXCEPT !.trades = <<XTwo>>]}

\* as InitExec: the loop is past the partition of the cycle in which the descriptor is
\* due, the foreground thread in its wait loop
InitStopExec ==
    /\ clock = ExecStart
    /\ config \in StopConfigs
    /\ scheduled_trades = ScheduleAll(config, 1, 0)
    /\ last_reset_date = None
    /\ is_running = TRUE
    /\ pc = "dispatch"
    /\ sched_ret = "main"
    /\ sched_i = Len(config.trades) + 1
    /\ current_time = ExecStart
    /\ today = 0
    /\ trades_to_execute = DueTrades(scheduled_trades, ExecStart)
    /\ remaining_trades = NotDueTrades(scheduled_trades, ExecStart)
    /\ exec_i = 1
    /\ executing = {}
    /\ result = "none"
    /\ resets = <<>>
    /\ ExecIdle
    /\ ui_oneclick \in BOOLEAN
    /\ fg = "wait"
    /\ driver = "session"
    /\ before_reset = NoSnapshot
    /\ later_threads = 0
    /\ reset_entry_count = TRUE
    /\ baseline_reading = 0

SpecStopExec == InitStopExec /\ [][NextStopExec]_vars

\* C22: an execute_trade in progress is not cut short by a stop: whenever one has been
\* entered and has not returned, the thread is still running it, whatever the run flag.
C22_ExecutionNotInterrupted == epc # "idle" => pc = "executing"

\* the loop calls execute_trade for the next descriptor of trades_to_execute
IsDispatchStep == pc = "dispatch" /\ pc' = "executing"

\* C23: a stop takes effect between descriptors: once the run flag is cleared and a
\* descriptor of the cycle has been executed, the loop starts the execution of no
\* further descriptor of that cycle.
C23_NoDispatchAfterStop == [][(~is_running /\ exec_i > 1) => ~IsDispatchStep]_vars

\* a stop has happened: the interrupt handler runs or has run, the run flag has been
\* cleared after the start, or main or the thread has ended (an error surfaced in main
\* among them)
AfterStop == fg \in {"join", "done"} \/ StopRequested \/ pc \in Terminal

\* C24: stopping never closes the browser: after an interrupt in the foreground wait,
\* after stop_trading, and after an error that ended main, self.driver is still the
\* session start_browser opened.
C24_BrowserStaysOpen == AfterStop => driver = "session"

\* the interrupt handler has returned while an execute_trade was in progress, and the
\* interpreter has exited
C24_Witness == fg = "done" /\ pc = "killed" /\ executing # {} /\ driver = "session"

\* a step of the foreground thread while the loop runs: it moves on, or the run flag
\* changes
IsForegroundStep == fg # "main" /\ (fg' # fg \/ is_running' # is_running)

\* where the scheduler thread assigns self.scheduled_trades: the rebuild of the daily
\* reset (reload_config, schedule_trades) and the replacement at the end of a cycle
ScheduleWriters == {"reload", "sched", "replace"}

\* C25: while the loop runs, self.scheduled_trades is written only by the scheduler
\* thread, in the daily reset's rebuild and the end-of-cycle replacement; a step of the
\* foreground thread changes the run flag and nothing else of the trader's state.
C25_ScheduleOwnedByLoop ==
    /\ [][IsForegroundStep =>
             UNCHANGED <<config, scheduled_trades, last_reset_date, trades_to_execute,
                         remaining_trades, driver>>]_vars
    /\ [][(fg # "main" /\ scheduled_trades' # scheduled_trades) =>
             pc \in ScheduleWriters /\ ~IsForegroundStep]_vars

\* the interrupt handler is waiting in its join while the thread is about to replace a
\* schedule that the cycle has changed
C25_Witness == fg = "join" /\ pc = "replace" /\ remaining_trades # scheduled_trades

\* s is t with some of its elements left out and the others in t's order
RECURSIVE InOrderOf(_, _)
InOrderOf(s, t) ==
    IF s = <<>> THEN TRUE
    ELSE IF t = <<>> THEN FALSE
    ELSE IF Head(s) = Head(t) THEN InOrderOf(Tail(s), Tail(t))
    ELSE InOrderOf(s, Tail(t))

\* the loop is between the partition of a cycle and the replacement that ends it
InDispatchLoop == pc \in {"dispatch", "executing", "recur"}

\* C26: the descriptors due in a cycle are executed in the order they have in
\* self.scheduled_trades, whatever their triggers: the due list keeps the schedule's
\* order, the loop takes its positions one after the other, and it starts the execution
\* of a position only when no earlier execution is still in progress.
C26_DispatchInScheduleOrder ==
    /\ [][(pc = "partition" /\ pc' \in {"dispatch", "replace"}) =>
             InOrderOf(trades_to_execute', scheduled_trades)]_vars
    /\ [][InDispatchLoop =>
             /\ UNCHANGED trades_to_execute
             /\ exec_i' # exec_i => (exec_i' = exec_i + 1 /\ executing = {})]_vars
    /\ [][IsDispatchStep => executing = {} /\ executing' = {exec_i}]_vars

\* the second due descriptor is being executed after the first, and its trigger is the
\* earlier one
C26_Witness ==
    /\ pc = "executing"
    /\ Len(trades_to_execute) >= 2
    /\ exec_i = 2
    /\ executing = {2}
    /\ trades_to_execute[2].time < trades_to_execute[1].time

\* C27: the confirmed count an execution reports is never negative, whatever the entry
\* counter read during the execution: once the final count has been read,
\* final_entry_count - base_entry_count >= 0.
C27_ConfirmedCountNotNegative == epc = "return" => actual_count >= 0

----------------------------------------------------------------------------
(* execute_trade when the trading time cannot be selected                  *)

\* the settings d without the keys ks
Without(d, ks) == [k \in DOMAIN d \ ks |-> d[k]]

\* config.json with no selectors for the trading time at all
XCfgTimeAbsent ==
    Without([XCfgNormal EXCEPT !.trades = <<XTwo>>],
            {"time_dropdown_selector", "time_list_selector"})

\* config.json with the list selector of the trading time left empty, in normal mode
XCfgTimeEmpty ==
    [XCfgNormal EXCEPT !.trades = <<XTwo>>, !.time_list_selector = ""]

\* config.json in one-click mode, where the dropdown of the trading time may not appear
XCfgTimeOneClick == [XCfgOneClick EXCEPT !.trades = <<XTwo>>]

TimeConfigs == {XCfgTimeAbsent, XCfgTimeEmpty, XCfgTimeOneClick}

\* as InitExec, on the configurations whose trading time selection fails
InitTime ==
    /\ clock = ExecStart
    /\ config \in TimeConfigs
    /\ scheduled_trades = ScheduleAll(config, 1, 0)
    /\ last_reset_date = None
    /\ is_running = TRUE
    /\ pc = "dispatch"
    /\ sched_ret = "main"
    /\ sched_i = Len(config.trades) + 1
    /\ current_time = ExecStart
    /\ today = 0
    /\ trades_to_execute = DueTrades(scheduled_trades, ExecStart)
    /\ remaining_trades = NotDueTrades(scheduled_trades, ExecStart)
    /\ exec_i = 1
    /\ executing = {}
    /\ result = "none"
    /\ resets = <<>>
    /\ ExecIdle
    /\ ui_oneclick \in BOOLEAN
    /\ fg = "wait"
    /\ driver = "session"
    /\ before_reset = NoSnapshot
    /\ later_threads = 0
    /\ reset_entry_count = TRUE
    /\ baseline_reading = 0

SpecTime == InitTime /\ [][NextExec]_vars

\* the step in which execute_trade selects the trading time (and checks one-click mode)
IsPrepareStep == epc = "prepare" /\ epc' # "prepare"

\* C28: a trading time that cannot be selected does not end the execution: whatever
\* select_trading_time does, execute_trade goes on to its iterations, nothing returned.
C28_DurationFailureNotFatal == [][IsPrepareStep => (epc' = "iter" /\ ret' = "none")]_vars

----------------------------------------------------------------------------
(* execute_trade and the retry budget it is given                          *)

\* a raw trade that sets neither count nor retry_seconds
XPlain == [time |-> T0630, direction |-> "buy"]

\* one-click mode with a global retry_seconds of 1: an override of 0, and no override
XCfgBudgetGlobal == [XCfgOneClick EXCEPT !.trades = <<XZero, XPlain>>]

\* normal mode with no global retry_seconds: no override, and an override of 1
XCfgBudgetDefault ==
    Without([XCfgNormal EXCEPT !.trades = <<XPlain, XTwo>>], {"retry_seconds"})

BudgetConfigs == {XCfgBudgetGlobal, XCfgBudgetDefault}

\* as InitExec, on the configurations of the retry budget
InitBudget ==
    /\ clock = ExecStart
    /\ config \in BudgetConfigs
    /\ scheduled_trades = ScheduleAll(config, 1, 0)
    /\ last_reset_date = None
    /\ is_running = TRUE
    /\ pc = "dispatch"
    /\ sched_ret = "main"
    /\ sched_i = Len(config.trades) + 1
    /\ current_time = ExecStart
    /\ today = 0
    /\ trades_to_execute = DueTrades(scheduled_trades, ExecStart)
    /\ remaining_trades = NotDueTrades(scheduled_trades, ExecStart)
    /\ exec_i = 1
    /\ executing = {}
    /\ result = "none"
    /\ resets = <<>>
    /\ ExecIdle
    /\ ui_oneclick \in BOOLEAN
    /\ fg = "wait"
    /\ driver = "session"
    /\ before_reset = NoSnapshot
    /\ later_threads = 0
    /\ reset_entry_count = TRUE
    /\ baseline_reading = 0

SpecBudget == InitBudget /\ [][NextExec]_vars

\* the raw trade of config.json from which the descriptor being processed was scheduled
\* (every raw trade of these configurations is scheduled and due)
RawTrade == config.trades[exec_i]

\* the budget the running execution is to use, in ms: the raw trade's retry_seconds when
\* it has one, else the global setting, else the default
ClaimedBudgetMs ==
    1000 * (IF "retry_seconds" \in DOMAIN RawTrade THEN RawTrade.retry_seconds
            ELSE IF "retry_seconds" \in DOMAIN config THEN config.retry_seconds
            ELSE DefaultRetrySeconds)

\* C29: an execution uses the retry_seconds of its raw trade whenever the trade has one
\* (0 included), otherwise the global retry_seconds, otherwise 10 s: the deadline check
\* of every iteration ends the loop exactly when that budget has elapsed; and the
\* override reaches the descriptor and its next occurrence unchanged, as None when the
\* raw trade has none.
C29_RetryBudgetSelection ==
    /\ [][(epc = "iter" /\ trade_i < CurrentTrade.count) =>
             (deadline_seen' <=> Elapsed >= ClaimedBudgetMs)]_vars
    /\ [][IsDispatchStep =>
             CurrentTrade.retry_seconds = Get(RawTrade, "retry_seconds", None)]_vars
    /\ [][IsRecurrenceStep =>
             Last(remaining_trades').retry_seconds = Get(RawTrade, "retry_seconds", None)]_vars

\* the execution with the override 0 has been ended by its first deadline check, under
\* a global setting of 1 s
C29_Witness ==
    /\ epc = "final"
    /\ deadline_seen
    /\ trade_i = 0
    /\ CurrentTrade.retry_seconds = 0
    /\ Get(config, "retry_seconds", None) = 1

\* an attempt of an iteration has failed on a missing element while budget remains: the
\* amount was not entered, or the primary click was not issued
IsFailedAttemptStep ==
    \/ /\ epc = "iter"
       /\ trade_i < CurrentTrade.count
       /\ Elapsed < BudgetMs
       /\ amount_entries' = amount_entries
       /\ <<epc, trade_i>>' # <<epc, trade_i>>
    \/ /\ epc = "click"
       /\ PageActions' = PageActions
       /\ ~deadline_seen'
       /\ <<epc, trade_i>>' # <<epc, trade_i>>

\* C30: a failed amount entry or primary click with budget left counts as a click without
\* effect: the execution does not end, and the iteration goes on to the confirmation of
\* its expected count instead of being given up.
C30_FailedAttemptIsRetried ==
    [][IsFailedAttemptStep =>
          /\ ret' = "none"
          /\ trade_i' = trade_i
          /\ epc' \in {"confirm", "retry"}]_vars

----------------------------------------------------------------------------
(* Properties of the schedule over the cycles                              *)

\* the descriptors of a list
Descriptors(trades) == {trades[k] : k \in 1..Len(trades)}

\* the cycle has dispatched every descriptor of its due list and is at its replacement
CycleDispatched(d) == pc = "replace" /\ d \in Descriptors(trades_to_execute)

\* C31: no due descriptor is lost: a descriptor whose trigger has been reached leaves
\* self.scheduled_trades only in the replacement of a cycle that has dispatched it; a
\* daily reset discards none of them.
C31_NoDueDescriptorLost ==
    [][\A d \in Descriptors(scheduled_trades) :
          (d.time <= clock /\ d \notin Descriptors(scheduled_trades'))
              => CycleDispatched(d)]_vars

----------------------------------------------------------------------------
(* execute_trade on a page whose entry counter follows the orders placed   *)

\* the clicks of the running execute_trade that place an order: the direction button in
\* one-click mode, the purchase button otherwise
OrderClicks == IF UseOneClick(config) THEN direction_clicks ELSE purchase_clicks

\* the larger of two counts
Max(a, b) == IF a >= b THEN a ELSE b

\* what the page shows when every click that places an order adds at most one entry,
\* at once or later, and no entry goes away during the execution: a reading taken by the
\* confirmation, by a retry round or at the end is at least the last reading and the
\* baseline, and at most the baseline plus the orders placed so far
PageLaw ==
    /\ epc \in {"confirm", "retry"} =>
          /\ current_entry_count' >= Max(base_entry_count, current_entry_count)
          /\ current_entry_count' <= base_entry_count + OrderClicks'
    /\ epc = "final" =>
          /\ final_entry_count' >= Max(base_entry_count, current_entry_count)
          /\ final_entry_count' <= base_entry_count + OrderClicks'

\* the cycle of SpecExec on such a page
NextPage ==
    \/ ExecuteTradeCall /\ PageLaw
    \/ ExecuteTradeEnter /\ PageLaw
    \/ Prepare /\ PageLaw
    \/ IterationStart /\ PageLaw
    \/ PrimaryClickOneClick /\ PageLaw
    \/ PrimaryClickNormal /\ PageLaw
    \/ Confirm /\ PageLaw
    \/ RetryRound /\ PageLaw
    \/ FinalCount /\ PageLaw
    \/ ExecuteTradeLeave /\ PageLaw
    \/ Recurrence /\ PageLaw
    \/ EndOfCycle /\ PageLaw

SpecPage == InitExec /\ [][NextPage]_vars

\* C32: no more orders than requested: on a page where each order-placing click adds at
\* most one entry, at once or after a delay, the final entry count of an execution is
\* at most the baseline plus the requested count.
C32_NoOverOrdering ==
    epc = "return" => final_entry_count <= base_entry_count + CurrentTrade.count

\* C33: in normal mode no order is submitted before the direction has been chosen: an
\* execution that has clicked the purchase button has clicked its direction button.
C33_DirectionBeforeSubmission ==
    (~UseOneClick(config) /\ purchase_clicks > 0) => direction_clicks > 0

\* C34: an execution gives up short only on timeout: when execute_trade reads its final
\* count and finds fewer than count entries above the baseline, the retry budget has
\* elapsed since trade_start_time.
C34_ShortOnlyOnTimeout ==
    [][(IsFinalStep /\ final_entry_count' - base_entry_count < CurrentTrade.count)
          => Elapsed >= BudgetMs]_vars

(* A daily reset that fails *)

\* reload_config returns False: _load_config or schedule_trades raised inside its try
ReloadFailed ==
    /\ pc \in {"reload", "sched"}
    /\ before_reset # NoSnapshot
    /\ pc' = "partition"
    /\ resets' = resets

\* C35: a failed daily reset leaves the schedule as it was: when reload_config returns
\* failure, the ScheduleSet and the active configuration are those the reset attempt
\* found, so the trades pending before it are still in the set to be dispatched
C35_FailedResetKeepsSchedule ==
    [][ReloadFailed =>
          /\ config' = before_reset.config
          /\ scheduled_trades' = before_reset.trades]_vars

(* start_trading called again after it has returned *)

\* scheduler threads that the model lets be alive at once
MaxThreads == 2

\* a caller calls start_trading once more (lines 1624-1646): there is no check of an
\* earlier thread, the run flag is set and a new thread is started. pc stays with the
\* earlier thread while that one is alive; the loop of the later thread is counted,
\* not followed
StartTradingAgain ==
    /\ fg = "done"
    /\ driver = "session"
    /\ scheduled_trades # <<>>
    /\ is_running' = TRUE
    /\ fg' = "wait"
    /\ IF pc \in Terminal
       THEN /\ pc' = "top"
            /\ UNCHANGED later_threads
       ELSE /\ 1 + later_threads < MaxThreads
            /\ later_threads' = later_threads + 1
            /\ UNCHANGED pc
    /\ UNCHANGED <<clock, config, scheduled_trades, last_reset_date, sched_ret, sched_i,
                   current_time, today, trades_to_execute, remaining_trades, exec_i, executing,
                   result, resets>>
    /\ UNCHANGED <<execVars, driver, before_reset, reset_entry_count, baseline_reading>>

\* a later thread finds the run flag cleared at `while self.is_running` (line 1545)
LaterThreadExit ==
    /\ later_threads > 0
    /\ ~is_running
    /\ later_threads' = later_threads - 1
    /\ UNCHANGED <<clock, config, scheduled_trades, last_reset_date, is_running, pc, sched_ret,
                   sched_i, current_time, today, trades_to_execute, remaining_trades, exec_i,
                   executing, result, resets>>
    /\ UNCHANGED <<execVars, fgVars, before_reset, reset_entry_count, baseline_reading>>

\* the object under a caller that goes on after start_trading has returned
NextRestart ==
    \/ Tick
    \/ MainScheduleTrades
    \/ ScheduleTradesRaise
    \/ ScheduleTradesStep
    \/ ScheduleTradesReturnMain
    \/ ScheduleTradesReturnReload
    \/ StartTrading
    \/ StartTradingAgain
    \/ StopTrading
    \/ Interrupt
    \/ JoinReturn
    \/ ForegroundIdleCheck
    \/ LaterThreadExit
    \/ LoopTop
    \/ CheckDailyReset
    \/ ReloadConfig
    \/ Partition
    \/ ExecuteTradeCall
    \/ ExecuteTradeReturn
    \/ Recurrence
    \/ EndOfCycle

SpecRestart == Init /\ [][NextRestart]_vars

\* the scheduler threads that are alive
LiveThreads == (IF pc \in Terminal \cup {"main", "sched", "start"} THEN 0 ELSE 1) + later_threads

\* C36: at most one scheduler loop thread is alive at any time, over any sequence of
\* start_trading and stop_trading calls
C36_AtMostOneLoopThread == LiveThreads <= 1

(* execute_trade called with reset_entry_count true and with it false *)

InitFlag ==
    /\ clock = ExecStart
    /\ config \in ExecConfigs
    /\ scheduled_trades = ScheduleAll(config, 1, 0)
    /\ last_reset_date = None
    /\ is_running = TRUE
    /\ pc = "dispatch"
    /\ sched_ret = "main"
    /\ sched_i = Len(config.trades) + 1
    /\ current_time = ExecStart
    /\ today = 0
    /\ trades_to_execute = DueTrades(scheduled_trades, ExecStart)
    /\ remaining_trades = NotDueTrades(scheduled_trades, ExecStart)
    /\ exec_i = 1
    /\ executing = {}
    /\ result = "none"
    /\ resets = <<>>
    /\ ExecIdle
    /\ ui_oneclick \in BOOLEAN
    /\ fg = "wait"
    /\ driver = "session"
    /\ before_reset = NoSnapshot
    /\ later_threads = 0
    /\ reset_entry_count \in BOOLEAN
    /\ baseline_reading = 0

SpecFlag == InitFlag /\ [][NextExec]_vars

InCycleWithoutReload == pc \in {"top", "reset", "partition", "dispatch", "executing", "recur"}

\* self.scheduled_trades = remaining_trades (line 1619)
IsReplaceStep == pc = "replace" /\ pc' # "replace" /\ pc' \notin Terminal

\* C38: the number of descriptors in the ScheduleSet is the same after every scheduler
\* cycle that performs no daily reset as before it: the cycle leaves the set alone until
\* it replaces it, and the replacement has one next occurrence for each dispatched
\* descriptor, so a non-empty schedule is not empty afterwards
C38_ScheduleSizePreserved ==
    /\ [][InCycleWithoutReload => scheduled_trades' = scheduled_trades]_vars
    /\ [][IsReplaceStep =>
             /\ Len(scheduled_trades') = Len(scheduled_trades)
             /\ Len(remaining_trades) = Len(scheduled_trades)]_vars

C38_Witness ==
    /\ pc = "replace"
    /\ Len(trades_to_execute) >= 1
    /\ Len(scheduled_trades) >= 2
    /\ Len(remaining_trades) = Len(scheduled_trades)
    /\ remaining_trades # scheduled_trades

====
